---- MODULE Spec2Model ----
(***************************************************************************)
(* Model of the authentication-session subsystem of svelte-components:     *)
(* AuthService (the identity broker), createAuthStores (the reactive       *)
(* projection), createAuthGuards (the guard), createAuthFetch (the         *)
(* transport) and the AuthCallback / AuthHeader components.                *)
(*                                                                         *)
(* JavaScript is single threaded: every action below is one run-to-        *)
(* completion step, i.e. the code from one resumption (a call, or the      *)
(* settling of an awaited promise) up to the next await.  The oidc-client  *)
(* UserManager is modelled by its storage slot, its timers and the events  *)
(* it raises; whether one of its calls succeeds is an input of the step.   *)
(***************************************************************************)
EXTENDS Integers, Sequences, FiniteSets, TLC

\* ---------------------------------------------------------------- bounds
MaxTime == 2          \* the clock runs over 0..MaxTime
MaxTokens == 2        \* distinct access tokens the provider issues
MaxChanges == 4       \* notifyUserChange calls explored
MaxHandlers == 1      \* application handlers that may subscribe
MaxSubs == 3          \* registrations in userCallbacks
MaxErrorSubs == 2     \* registrations in errorCallbacks
MaxRequests == 2      \* authFetch calls
MaxRenewals == 2      \* signinSilent calls
MaxGuards == 1        \* canActivate calls
MaxCallbacks == 1     \* AuthCallback mounts
MaxErrors == 2        \* errors delivered to one application error handler
MaxUrlLen == 2        \* parts of a request URL
MaxCountdown == 2   \* HeadlessLoggedOut: Math.ceil(redirectDelay / 1000) at most
MaxMounts == 1      \* elements the requireAuth action is mounted on
MaxInstances == 2     \* AuthService instances created in one scope

\* ---------------------------------------------------------------- values
NoUser == [null |-> TRUE]
NoState == "NoState"
NoLoc == "NoLoc"
NoError == "NoError"
Locations == {"/reports"}
WindowLocation == "/current"
DefaultRedirect == "/"
RoleNames == {"Admin", "Editor"}
StoresHandler == 0
\* The handle initAuth builds around AuthService number k: every part is
\* created from that one service
Handle(k) == [service |-> k, stores |-> k, fetch |-> k, api |-> k, guards |-> k,
              requireAuth |-> k]
NoHandle == Handle(0)
AppHandlers == 1..MaxHandlers

SomeError == "Error"

\* The provider's error response saying that the session at the provider is
\* gone (login_required, invalid_grant)
SessionInvalid == "login_required"

\* The role claim of the account each access token is issued to: a scalar,
\* an array, no claim, an array of two
RoleClaimOf(a) ==
  CASE a = 1 -> [kind |-> "scalar", val |-> <<"Admin">>]
    [] a = 2 -> [kind |-> "array", val |-> <<"Editor">>]
    [] a = 3 -> [kind |-> "absent", val |-> <<>>]
    [] OTHER -> [kind |-> "array", val |-> <<"Editor", "Admin">>]

\* What the provider can put in a token response at time t.
Issued(t) ==
  {[access_token |-> a, expires_at |-> e, role |-> RoleClaimOf(a), state |-> NoState] :
     a \in 1..MaxTokens, e \in (t + 1)..MaxTime}

\* Users a previous page load may have left in storage.
Persisted == Issued(0)

Range(s) == {s[i] : i \in 1..Len(s)}

\* An optional string of a profile: undefined, or its characters (here
\* whole words); the empty string is Str(<<>>)
Undefined == [defined |-> FALSE, chars |-> <<>>]
Str(chars) == [defined |-> TRUE, chars |-> chars]

\* Role claims a profile may carry: none, the empty string, a string, an
\* empty array, arrays of one and of two
RoleClaims ==
  {[kind |-> "absent", val |-> <<>>],
   [kind |-> "scalar", val |-> <<"">>],
   [kind |-> "scalar", val |-> <<"Admin">>],
   [kind |-> "array", val |-> <<>>],
   [kind |-> "array", val |-> <<"Admin">>],
   [kind |-> "array", val |-> <<"Editor", "Admin">>]}

\* The profiles explored: each name part undefined, empty or a word
NoProfile == [null |-> TRUE]
Profiles ==
  {NoProfile} \cup
  [given_name : {Undefined, Str(<<>>), Str(<<"Ada">>)},
   family_name : {Undefined, Str(<<>>), Str(<<"Kay">>)},
   email : {Undefined, Str(<<>>), Str(<<"ada@example.org">>)},
   name : {Undefined, Str(<<>>), Str(<<"akay">>)},
   role : RoleClaims]

\* URLs and URL patterns are sequences of parts; a part is compared whole.
UrlParts == {"/api", "/v1", "i18n", "/locales/"}
Urls == UNION {[1..n -> UrlParts] : n \in 1..MaxUrlLen}
NoUrl == <<>>

\* The interceptor configurations explored; an apiBaseUrl of <<>> is the unset
\* (or empty, falsy) base URL
InterceptorConfigs ==
  [apiBaseUrl : {NoUrl, <<"/api">>},
   additionalUrls : SUBSET {<<"/v1">>, <<"/api", "/v1">>},
   excludeUrls : SUBSET {<<"/v1">>, <<"/api", "/api">>}]

\* createAuthFetch(authService, config = {}): nothing configured
DefaultInterceptorConfig == [apiBaseUrl |-> NoUrl, additionalUrls |-> {}, excludeUrls |-> {}]

\* String.prototype.includes
Includes(url, pat) ==
  \E i \in 0..(Len(url) - Len(pat)) : SubSeq(url, i + 1, i + Len(pat)) = pat

\* String.prototype.startsWith
StartsWith(url, pat) ==
  Len(pat) <= Len(url) /\ SubSeq(url, 1, Len(pat)) = pat

\* oidc-client User.expired: expires_in <= 0
Expired(u, t) == u.expires_at - t <= 0

VARIABLES
  now,              \* clock, epoch seconds
  storage,          \* the user the UserManager holds in storage
  expiryTimer,      \* UserManager's access-token-expired timer is armed
  currentUser,      \* AuthService.currentUser
  userCallbacks,    \* AuthService.userCallbacks
  errorCallbacks,   \* AuthService.errorCallbacks
  userStore,        \* stores: userStore
  loadingStore,     \* stores: loadingStore
  errorStore,       \* stores: errorStore
  errReceived,      \* per application error handler: calls received
  isAuthValue,      \* value the derived isAuthenticated store holds while subscribed
  headerMounted,    \* AuthHeader has subscribed to isAuthenticated
  headerIsAuthenticated, \* AuthHeader's copy of the store value
  received,         \* per application handler: calls received and the last value
  changes,          \* number of notifyUserChange calls so far
  delivered,        \* handlers called by the latest notifyUserChange, in call order
  lateCall,         \* a handler was called while none of its registrations was left
  behaviour,        \* per application handler: the handler whose unsubscribe closure
                    \* its body calls (0: none)
  initPc,           \* the constructor's init(): "none" (no service yet) | "await" | "done"
  loadPending,      \* loadUser calls awaiting getUser
  fetchPc, fetchHeader, fetchStatus, fetchResult,
  removeCalls, signoutCalls, onUnauthorizedCalls, onForbiddenCalls,
  renewPc, renewUser,
  guardPc, guardOpts, guardResult, signinCalls, signinArgs, oidcState,
  cbCount, cbResult,
  removeResult,     \* how the application's last removeUser() call settled
  interceptorConfig, \* createAuthFetch: apiBaseUrl, additionalUrls, excludeUrls
  fetchUrl,         \* URL last given to shouldAddAuthHeader
  fetchAttach,      \* what shouldAddAuthHeader returned for it
  context,          \* the scope's AUTH_CONTEXT_KEY entry: the number of the AuthService
                    \* in the handle (1: the service of the other variables), 0: none
  extraServices,    \* the AuthService instances 2, 3, ... of the scope, in creation
                    \* order: each one's init() position and currentUser
  initAuthResult,   \* how the last initAuth call ended: "none" | "returned" | "threw"
  built,            \* the handle the last initAuth call returned
  resolved,         \* the outcome of the last getAuth call: status and handle
  profile,          \* stores: what the profile store holds; getUserProfile()
  derivedRoles,     \* stores: value of the roles store
  derivedName,      \* stores: value of the displayName store
  serviceName,      \* what getDisplayName() returned
  derivedBy,        \* which of "roles", "displayName", "getDisplayName" have run
  staleResult,      \* how the application's last clearStaleState() call settled
  requireResult,    \* per guard call made through requireAuth: "none" | "await" |
                    \* "resolved" | "threw" (its own error) | "rejected" (canActivate's)
  apiCall,          \* createAuthApi, per authFetch call: the verb that made it
                    \* ("none": authFetch called directly) and how the verb settled
  accessors,        \* what hasRole(r), isAdmin() and the isAdmin store returned:
                    \* the names asked of hasRole, those it said yes to, and the
                    \* two admin answers ("none" until asked)
  loggedOut,        \* HeadlessLoggedOut: where handleLogout is, the autoRedirect prop,
                    \* countdown, intervalId, whether the interval timer is
                    \* running, the automatic redirects made, and whether
                    \* cancelRedirect() has been called
  mounts            \* use:requireAuth, per element it is mounted on: the checkAuth
                    \* calls it has made, the signinRedirect calls they made, and
                    \* node.style.display

errorVars == <<errorStore, errReceived>>
brokerVars == <<storage, expiryTimer, currentUser, errorCallbacks>>
projectionVars == <<userStore, loadingStore, isAuthValue, headerIsAuthenticated, received,
                    changes>>
viewVars == <<projectionVars, userCallbacks, delivered, lateCall>>
headerVars == <<headerMounted>>
loadVars == <<initPc, loadPending>>
fetchVars == <<fetchPc, fetchHeader, fetchStatus, fetchResult, removeCalls, signoutCalls,
               onUnauthorizedCalls, onForbiddenCalls>>
renewVars == <<renewPc, renewUser>>
guardVars == <<guardPc, guardOpts, guardResult, signinCalls, signinArgs, oidcState>>
cbVars == <<cbCount, cbResult>>
urlVars == <<interceptorConfig, fetchUrl, fetchAttach>>
registryVars == <<context, extraServices, initAuthResult, built, resolved>>
requireVars == <<requireResult>>
staleVars == <<staleResult>>
profileVars == <<profile, derivedRoles, derivedName, serviceName, derivedBy>>
appVars == <<apiCall, mounts, accessors, loggedOut>>
callVars == <<removeResult, urlVars, behaviour, requireVars, staleVars, profileVars, appVars, registryVars>>
vars == <<now, brokerVars, errorVars, viewVars, headerVars, loadVars, fetchVars,
          renewVars, guardVars, cbVars, callVars>>

\* ------------------------------------------------------ reactive projection
\* stores.ts isAuthenticated: $user !== null && !$user.expired
DeriveIsAuthenticated(u, t) == u # NoUser /\ ~Expired(u, t)

\* svelte safe_not_equal: an object always counts as changed, null -> null does not
SafeNotEqual(a, b) == a # b \/ a # NoUser

\* The record of everything a session-change notification can touch.
View == [userStore |-> userStore, loadingStore |-> loadingStore,
         isAuthValue |-> isAuthValue, headerIsAuthenticated |-> headerIsAuthenticated,
         received |-> received, changes |-> changes,
         userCallbacks |-> userCallbacks, delivered |-> delivered, lateCall |-> lateCall]

\* userStore.set(user): the derived isAuthenticated store recomputes only
\* while it has a subscriber, and only when the writable reports a change.
UserStoreSet(v, user) ==
  LET recompute == headerMounted /\ SafeNotEqual(v.userStore, user)
      val == DeriveIsAuthenticated(user, now)
  IN [v EXCEPT !.userStore = user,
               !.isAuthValue = IF recompute THEN val ELSE @,
               !.headerIsAuthenticated = IF recompute THEN val ELSE @]

\* The unsubscribe closure of handler h: userCallbacks is replaced by a copy
\* without h
Filtered(cbs, h) == SelectSeq(cbs, LAMBDA cb : cb # h)

\* The body of application handler h runs: it records the value and, if it
\* is written to stop listening once a user has arrived and the closure
\* exists (the handler whose closure it calls has subscribed before), calls
\* that unsubscribe closure.
HandlerBody(h, user, v) ==
  LET k == behaviour[h]
  IN [v EXCEPT !.received[h] = [count |-> @.count + 1, last |-> user],
               !.userCallbacks = IF k # 0 /\ user # NoUser /\ v.received[k].count > 0
                                 THEN Filtered(@, k) ELSE @]

\* One callback of userCallbacks invoked with user.
InvokeCallback(h, user, v) ==
  LET w == [v EXCEPT !.delivered = Append(@, h),
                     !.lateCall = @ \/ h \notin Range(v.userCallbacks)]
  IN IF h = StoresHandler
     THEN [UserStoreSet(w, user) EXCEPT !.loadingStore = FALSE]
     ELSE HandlerBody(h, user, w)

\* forEach visiting the callbacks from the last to the first
RECURSIVE ForEachCallback_Reversed(_, _, _)
ForEachCallback_Reversed(cbs, user, v) ==
  IF cbs = <<>> THEN v
  ELSE ForEachCallback_Reversed(SubSeq(cbs, 1, Len(cbs) - 1), user,
                                InvokeCallback(cbs[Len(cbs)], user, v))

\* Array.prototype.forEach over the array userCallbacks referred to when the
\* notification began
RECURSIVE ForEachCallback(_, _, _)
ForEachCallback(cbs, user, v) ==
  IF cbs = <<>> THEN v
  ELSE ForEachCallback(Tail(cbs), user, InvokeCallback(Head(cbs), user, v))

\* AuthService.notifyUserChange
notifyUserChange(user, v) ==
  [ForEachCallback(v.userCallbacks, user, [v EXCEPT !.delivered = <<>>])
     EXCEPT !.changes = @ + 1]

RECURSIVE NotifyEach(_, _)
NotifyEach(users, v) ==
  IF users = <<>> THEN v
  ELSE NotifyEach(Tail(users), notifyUserChange(Head(users), v))

\* The step publishes the given values, in order, to the subscribers.
Publish(users) ==
  LET v == NotifyEach(users, View)
  IN /\ changes + Len(users) <= MaxChanges
     /\ userStore' = v.userStore
     /\ loadingStore' = v.loadingStore
     /\ isAuthValue' = v.isAuthValue
     /\ headerIsAuthenticated' = v.headerIsAuthenticated
     /\ received' = v.received
     /\ changes' = v.changes
     /\ userCallbacks' = v.userCallbacks
     /\ delivered' = v.delivered
     /\ lateCall' = v.lateCall

\* Number of registrations of handler h in the callback list cbs
Registrations(cbs, h) == Cardinality({i \in 1..Len(cbs) : cbs[i] = h})

\* AuthService.notifyError: every registered callback is called with e; the
\* stores' handler sets errorStore
notifyError(e) ==
  /\ \A h \in AppHandlers : errReceived[h] + Registrations(errorCallbacks, h) <= MaxErrors
  /\ errorStore' = IF StoresHandler \in Range(errorCallbacks) THEN e ELSE errorStore
  /\ errReceived' = [h \in AppHandlers |->
                       errReceived[h] + Registrations(errorCallbacks, h)]

\* Value read from stores.isAuthenticated (get(), isAuthenticatedSync):
\* the cached value while the store has a subscriber, else a fresh derivation.
isAuthenticated ==
  IF headerMounted THEN isAuthValue ELSE DeriveIsAuthenticated(userStore, now)

\* A roles derivation that keeps array claims only
roleArray_ArraysOnly(roleClaim) ==
  IF roleClaim.kind = "array" THEN roleClaim.val ELSE <<>>

\* stores.ts roles: if (!roleClaim) return []; Array.isArray(roleClaim) ?
\* roleClaim : [roleClaim].  No claim and the empty string are falsy; an
\* array, even an empty one, is not.
roleArray(roleClaim) ==
  IF roleClaim.kind = "absent" THEN <<>>
  ELSE IF roleClaim.kind = "array" THEN roleClaim.val
  ELSE IF roleClaim.val[1] = "" THEN <<>>
  ELSE <<roleClaim.val[1]>>

\* stores.ts roles, on the profile of user u
roles(u) == IF u = NoUser THEN <<>> ELSE roleArray(u.role)

\* stores.ts roles, on what the profile store holds
rolesOfProfile(p) == IF p = NoProfile THEN <<>> ELSE roleArray(p.role)

\* JavaScript truthiness of an optional string, and a || b
Truthy(f) == f.defined /\ f.chars # <<>>
Or(a, b) == IF Truthy(a) THEN a ELSE b

\* stores.ts displayName: given_name && family_name ? both joined by a
\* space : undefined
fullNameOf(p) ==
  IF Truthy(p.given_name) /\ Truthy(p.family_name)
  THEN Str(p.given_name.chars \o <<" ">> \o p.family_name.chars)
  ELSE Undefined

\* A displayName that prefers the user name to the email
displayName_NameFirst(p) ==
  IF p = NoProfile THEN <<>>
  ELSE Or(Or(Or(fullNameOf(p), p.name), p.email), Str(<<>>)).chars

\* stores.ts displayName: fullName || email || name || ''
displayName(p) ==
  IF p = NoProfile THEN <<>>
  ELSE Or(Or(Or(fullNameOf(p), p.email), p.name), Str(<<>>)).chars

\* AuthService.getFullName, getEmail, getUserName: undefined without a profile
getFullName(p) == IF p = NoProfile THEN Undefined ELSE fullNameOf(p)
getEmail(p) == IF p = NoProfile THEN Undefined ELSE p.email
getUserName(p) == IF p = NoProfile THEN Undefined ELSE p.name

\* AuthService.getDisplayName: getFullName() || getEmail() || getUserName() || ''
getDisplayName(p) ==
  Or(Or(Or(getFullName(p), getEmail(p)), getUserName(p)), Str(<<>>)).chars

\* The values profile['admin'] may have: no claim, the booleans, and the
\* string 'true'
AdminFlags == {"absent", "true", "false", "'true'"}

\* Profiles with an admin claim, and role claims that name Administrator
AdminRoleClaims ==
  RoleClaims \cup {[kind |-> "scalar", val |-> <<"Administrator">>],
                   [kind |-> "array", val |-> <<"Editor", "Administrator">>]}
AdminProfiles ==
  {NoProfile} \cup
  [given_name : {Undefined, Str(<<"Ada">>)},
   family_name : {Str(<<"Kay">>)},
   email : {Undefined, Str(<<"ada@example.org">>)},
   name : {Str(<<"akay">>)},
   role : AdminRoleClaims,
   admin : AdminFlags]

\* Role names asked of hasRole
QueryRoles == {"Admin", "Administrator", ""}

\* A hasRole that matches array claims only
hasRole_ArraysOnly(p, roleName) ==
  IF p = NoProfile THEN FALSE
  ELSE IF p.role.kind = "array" THEN roleName \in Range(p.role.val)
  ELSE FALSE

\* AuthService.hasRole: false without a profile or with a falsy claim;
\* roleClaim.includes(roleName) for an array; roleClaim === roleName otherwise
hasRole(p, roleName) ==
  IF p = NoProfile THEN FALSE
  ELSE IF p.role.kind = "absent" THEN FALSE
  ELSE IF p.role.kind = "array" THEN roleName \in Range(p.role.val)
  ELSE IF p.role.val[1] = "" THEN FALSE
  ELSE p.role.val[1] = roleName

\* AuthService.isAdmin: profile['admin'] === true || hasRole('Administrator')
isAdmin(p) ==
  IF p = NoProfile THEN FALSE
  ELSE p.admin = "true" \/ hasRole(p, "Administrator")

\* stores.ts isAdmin: $profile['admin'] === true ||
\* $roles.includes('Administrator')
isAdminStore(p, rolesValue) ==
  IF p = NoProfile THEN FALSE
  ELSE p.admin = "true" \/ "Administrator" \in Range(rolesValue)

\* A boolean answer as it is recorded
Answer(b) == IF b THEN "true" ELSE "false"

\* createAuthApi: the convenience verbs
Verbs == {"get", "post", "put", "patch", "delete"}

\* what a verb's promise settled with.  result: "await" | "parsed" (the value
\* of response.json()) | "undefined" | "httpError" (the verb's own Error,
\* whose message carries `status`) | "syntaxError" (response.json() rejected)
\* | "rejected" (authFetch's rejection, passed on)
VerbOutcome(verb, result, status) == [verb |-> verb, result |-> result, status |-> status]
NoVerb == VerbOutcome("none", "none", 0)

\* Response bodies: a JSON document or nothing
Bodies == {"json", "empty"}

\* use:requireAuth on one element.  checks: one entry per checkAuth() call,
\* "isLoggedIn" | "signinRedirect" (awaiting it) | "done" | "rejected";
\* signins: signinRedirect calls made by them; display: node.style.display
\* ("unset" until a check writes it)
NotMounted == [checks |-> <<>>, signins |-> 0, display |-> "unset"]

\* HeadlessLoggedOut before it is mounted.  pc: "unmounted" | "callback"
\* (handleLogout awaits signoutRedirectCallback) | "settled"; intervalId:
\* "undefined" | "id" (what setInterval returned) | "0"
LoggedOut(pc, autoRedirect, countdown, intervalId, ticking, redirects, cancelCalled) ==
  [pc |-> pc, autoRedirect |-> autoRedirect, countdown |-> countdown,
   intervalId |-> intervalId, ticking |-> ticking, redirects |-> redirects,
   cancelCalled |-> cancelCalled]
NoLoggedOut == LoggedOut("unmounted", TRUE, 0, "undefined", FALSE, 0, FALSE)

\* ---------------------------------------------------------------- Init
\* The state once initAuth has returned: the service is constructed, init()
\* and the stores' loadUser() are awaiting getUser, and the stores' handler
\* has been registered and called once with null.
InitIdle ==
  /\ now = 0
  /\ storage \in {NoUser} \cup Persisted
  /\ expiryTimer = FALSE
  /\ currentUser = NoUser
  /\ userStore = NoUser
  /\ errorStore = NoError
  /\ errReceived = [h \in AppHandlers |-> 0]
  /\ isAuthValue = FALSE
  /\ headerMounted = FALSE
  /\ headerIsAuthenticated = FALSE
  /\ received = [h \in AppHandlers |-> [count |-> 0, last |-> NoUser]]
  /\ changes = 0
  /\ delivered = <<>>
  /\ lateCall = FALSE
  /\ fetchPc = [r \in 1..MaxRequests |-> "idle"]
  /\ fetchHeader = [r \in 1..MaxRequests |-> 0]
  /\ fetchStatus = [r \in 1..MaxRequests |-> 0]
  /\ fetchResult = [r \in 1..MaxRequests |-> "none"]
  /\ removeCalls = 0
  /\ signoutCalls = 0
  /\ onUnauthorizedCalls = 0
  /\ onForbiddenCalls = 0
  /\ renewPc = [s \in 1..MaxRenewals |-> "idle"]
  /\ renewUser = [s \in 1..MaxRenewals |-> NoUser]
  /\ guardPc = [g \in 1..MaxGuards |-> "idle"]
  /\ guardOpts = [g \in 1..MaxGuards |-> [returnUrl |-> NoLoc, requiredRoles |-> {}]]
  /\ guardResult = [g \in 1..MaxGuards |-> "none"]
  /\ signinCalls = [g \in 1..MaxGuards |-> 0]
  /\ signinArgs = [g \in 1..MaxGuards |-> NoState]
  /\ oidcState = [g \in 0..MaxGuards |-> "absent"]
  /\ removeResult = "none"
  /\ cbCount = 0
  /\ cbResult = [redirect |-> 0, status |-> "none", user |-> NoUser, returnUrl |-> NoLoc]
  /\ fetchUrl = NoUrl
  /\ fetchAttach = FALSE
  /\ extraServices = <<>>
  /\ resolved = [status |-> "none", handle |-> NoHandle]
  /\ requireResult = [g \in 1..MaxGuards |-> "none"]
  /\ staleResult = "none"
  /\ derivedRoles = <<>>
  /\ derivedName = <<>>
  /\ serviceName = <<>>
  /\ derivedBy = {}
  /\ apiCall = [r \in 1..MaxRequests |-> NoVerb]
  /\ mounts = [n \in 1..MaxMounts |-> NotMounted]
  /\ loggedOut = NoLoggedOut
  /\ accessors = [asked |-> {}, hasRole |-> {}, isAdmin |-> "none", isAdminStore |-> "none"]

\* What the first initAuth of the scope has set up when it returns: the
\* service (its init() and the stores' loadUser() pending), the stores'
\* two subscriptions, and the context entry
InitBuilt ==
  /\ userCallbacks = <<StoresHandler>>
  /\ errorCallbacks = <<StoresHandler>>
  /\ loadingStore = FALSE
  /\ initPc = "await"
  /\ loadPending = 1
  /\ context = 1
  /\ initAuthResult = "returned"
  /\ built = Handle(1)

\* The state after initAuth has returned
InitBroker == InitIdle /\ InitBuilt

\* A scope in which initAuth has not been called
InitUnset ==
  /\ InitIdle
  /\ userCallbacks = <<>>
  /\ errorCallbacks = <<>>
  /\ loadingStore = TRUE
  /\ initPc = "none"
  /\ loadPending = 0
  /\ context = 0
  /\ initAuthResult = "none"
  /\ built = NoHandle
  /\ interceptorConfig = DefaultInterceptorConfig
  /\ behaviour = [h \in AppHandlers |-> 0]
  /\ profile = NoProfile

\* initAuth(settings): no interceptor configuration is given
Init ==
  /\ InitBroker
  /\ interceptorConfig = DefaultInterceptorConfig
  /\ behaviour = [h \in AppHandlers |-> 0]
  /\ profile = NoProfile

\* initAuth(settings, interceptorConfig)
InitConfigured ==
  /\ InitBroker
  /\ interceptorConfig \in InterceptorConfigs
  /\ behaviour = [h \in AppHandlers |-> 0]
  /\ profile = NoProfile

\* initAuth(settings), with application handlers whose bodies may call an
\* unsubscribe closure
InitReentrant ==
  /\ InitBroker
  /\ interceptorConfig = DefaultInterceptorConfig
  /\ behaviour \in [AppHandlers -> AppHandlers \cup {0}]
  /\ profile = NoProfile

\* ------------------------------------------------------------ registry
\* initAuth(authSettings, interceptorConfig?): new AuthService (its
\* constructor starts init()), createAuthStores (two subscriptions, loadUser),
\* setContext, return of the handle. The first service of the scope is the
\* one of the broker variables, a further one is appended to extraServices.
initAuth ==
  /\ initAuthResult' = "returned"
  /\ IF initPc = "none"
     THEN /\ initPc' = "await"
          /\ loadPending' = 1
          /\ userCallbacks' = <<StoresHandler>>
          /\ errorCallbacks' = <<StoresHandler>>
          /\ loadingStore' = FALSE
          /\ context' = 1
          /\ built' = Handle(1)
          /\ UNCHANGED <<storage, expiryTimer, currentUser, userStore, isAuthValue,
                         headerIsAuthenticated, received, changes, delivered, lateCall,
                         extraServices>>
     ELSE /\ Len(extraServices) + 1 < MaxInstances
          /\ extraServices' = Append(extraServices, [initPc |-> "await", currentUser |-> NoUser])
          /\ context' = Len(extraServices) + 2
          /\ built' = Handle(Len(extraServices) + 2)
          /\ UNCHANGED <<brokerVars, viewVars, loadVars>>
  /\ UNCHANGED <<now, errorVars, headerVars, fetchVars, renewVars, guardVars, cbVars,
                 removeResult, urlVars, behaviour, requireVars, staleVars, profileVars, appVars, resolved>>

\* getAuth_NoThrow is getAuth without the check of the context entry
getAuth_NoThrow ==
  /\ resolved' = [status |-> "returned", handle |-> Handle(context)]
  /\ UNCHANGED <<now, brokerVars, errorVars, viewVars, headerVars, loadVars, fetchVars,
                 renewVars, guardVars, cbVars, removeResult, urlVars, behaviour,
                 requireVars, staleVars, profileVars, appVars,
                 context, extraServices, initAuthResult, built>>

\* getAuth(): getContext(AUTH_CONTEXT_KEY); throw if there is none
getAuth ==
  /\ resolved' = IF context = 0
                 THEN [status |-> "threw", handle |-> NoHandle]
                 ELSE [status |-> "returned", handle |-> Handle(context)]
  /\ UNCHANGED <<now, brokerVars, errorVars, viewVars, headerVars, loadVars, fetchVars,
                 renewVars, guardVars, cbVars, removeResult, urlVars, behaviour,
                 requireVars, staleVars, profileVars, appVars,
                 context, extraServices, initAuthResult, built>>

\* init() of the i-th further AuthService: its getUser settles, reading the
\* user store that all UserManagers of the page share
ExtraInitDone(i, ok) ==
  /\ i \in 1..Len(extraServices)
  /\ extraServices[i].initPc = "await"
  /\ extraServices' =
       [extraServices EXCEPT ![i] =
          [initPc |-> "done",
           currentUser |-> IF ok /\ storage # NoUser /\ ~Expired(storage, now)
                           THEN storage ELSE NoUser]]
  /\ UNCHANGED <<now, brokerVars, errorVars, viewVars, headerVars, loadVars, fetchVars,
                 renewVars, guardVars, cbVars, removeResult, urlVars, behaviour,
                 requireVars, staleVars, profileVars, appVars,
                 context, initAuthResult, built, resolved>>

\* AuthService instances of the scope that hold a session
LiveSessions ==
  (IF currentUser # NoUser THEN 1 ELSE 0)
    + Cardinality({i \in 1..Len(extraServices) : extraServices[i].currentUser # NoUser})

\* ------------------------------------------------------------ profile
\* The profile given at the start is handed to each derivation
InitProfile ==
  /\ InitBroker
  /\ interceptorConfig = DefaultInterceptorConfig
  /\ behaviour = [h \in AppHandlers |-> 0]
  /\ profile \in Profiles

\* The roles store is read: its derivation runs on the profile
deriveRoles ==
  /\ "roles" \notin derivedBy
  /\ derivedRoles' = rolesOfProfile(profile)
  /\ derivedBy' = derivedBy \cup {"roles"}
  /\ UNCHANGED <<now, brokerVars, errorVars, viewVars, headerVars, loadVars, fetchVars,
                 renewVars, guardVars, cbVars, removeResult, urlVars, behaviour,
                 requireVars, staleVars, appVars, registryVars, profile, derivedName, serviceName>>

\* The displayName store is read: its derivation runs on the profile
deriveDisplayName ==
  /\ "displayName" \notin derivedBy
  /\ derivedName' = displayName(profile)
  /\ derivedBy' = derivedBy \cup {"displayName"}
  /\ UNCHANGED <<now, brokerVars, errorVars, viewVars, headerVars, loadVars, fetchVars,
                 renewVars, guardVars, cbVars, removeResult, urlVars, behaviour,
                 requireVars, staleVars, appVars, registryVars, profile, derivedRoles, serviceName>>

\* getDisplayName() is called on the service
getDisplayNameCall ==
  /\ "getDisplayName" \notin derivedBy
  /\ serviceName' = getDisplayName(profile)
  /\ derivedBy' = derivedBy \cup {"getDisplayName"}
  /\ UNCHANGED <<now, brokerVars, errorVars, viewVars, headerVars, loadVars, fetchVars,
                 renewVars, guardVars, cbVars, removeResult, urlVars, behaviour,
                 requireVars, staleVars, appVars, registryVars, profile, derivedRoles, derivedName>>

\* A profile with an admin claim is handed to the service and the stores
InitAccessors ==
  /\ InitBroker
  /\ interceptorConfig = DefaultInterceptorConfig
  /\ behaviour = [h \in AppHandlers |-> 0]
  /\ profile \in AdminProfiles

\* hasRole(roleName) is called on the service
hasRoleCall(roleName) ==
  /\ roleName \notin accessors.asked
  /\ accessors' = [accessors EXCEPT
                     !.asked = @ \cup {roleName},
                     !.hasRole = IF hasRole(profile, roleName) THEN @ \cup {roleName} ELSE @]
  /\ UNCHANGED <<now, brokerVars, errorVars, viewVars, headerVars, loadVars, fetchVars,
                 renewVars, guardVars, cbVars, removeResult, urlVars, behaviour,
                 requireVars, staleVars, profileVars, apiCall, mounts, loggedOut, registryVars>>

\* isAdmin() is called on the service
isAdminCall ==
  /\ accessors.isAdmin = "none"
  /\ accessors' = [accessors EXCEPT !.isAdmin = Answer(isAdmin(profile))]
  /\ UNCHANGED <<now, brokerVars, errorVars, viewVars, headerVars, loadVars, fetchVars,
                 renewVars, guardVars, cbVars, removeResult, urlVars, behaviour,
                 requireVars, staleVars, profileVars, apiCall, mounts, loggedOut, registryVars>>

\* The isAdmin store is read: it derives from the profile and the roles store
deriveIsAdmin ==
  /\ accessors.isAdminStore = "none"
  /\ accessors' = [accessors EXCEPT
                     !.isAdminStore = Answer(isAdminStore(profile, rolesOfProfile(profile)))]
  /\ UNCHANGED <<now, brokerVars, errorVars, viewVars, headerVars, loadVars, fetchVars,
                 renewVars, guardVars, cbVars, removeResult, urlVars, behaviour,
                 requireVars, staleVars, profileVars, apiCall, mounts, loggedOut, registryVars>>

\* ------------------------------------------------------------ environment
Tick ==
  /\ now < MaxTime
  /\ now' = now + 1
  /\ UNCHANGED <<brokerVars, errorVars, viewVars, headerVars, loadVars, fetchVars,
                 renewVars, guardVars, cbVars, callVars>>

\* AuthHeader onMount: stores.isAuthenticated.subscribe(v => isAuthenticated = v)
\* (its displayName subscription reads no state modelled here)
AuthHeaderMount ==
  /\ ~headerMounted
  /\ headerMounted' = TRUE
  /\ isAuthValue' = DeriveIsAuthenticated(userStore, now)
  /\ headerIsAuthenticated' = DeriveIsAuthenticated(userStore, now)
  /\ UNCHANGED <<now, brokerVars, errorVars, userStore, loadingStore, received, changes,
                 userCallbacks, delivered, lateCall, loadVars, fetchVars, renewVars, guardVars, cbVars, callVars>>

\* ------------------------------------------------------------ AuthService
\* init(): the constructor's getUser settles
InitDone(ok) ==
  /\ initPc = "await"
  /\ initPc' = "done"
  /\ IF ok
     THEN /\ expiryTimer' = (storage # NoUser)
          /\ IF storage # NoUser /\ ~Expired(storage, now)
             THEN currentUser' = storage /\ Publish(<<storage>>)
             ELSE UNCHANGED <<currentUser, viewVars>>
          /\ UNCHANGED errorVars
     ELSE /\ notifyError(SomeError)
          /\ UNCHANGED <<expiryTimer, currentUser, viewVars>>
  /\ UNCHANGED <<now, storage, errorCallbacks, headerVars, loadPending,
                 fetchVars, renewVars, guardVars, cbVars, callVars>>

\* loadUser() is called
LoadUserStart ==
  /\ loadPending < 1
  /\ loadPending' = loadPending + 1
  /\ UNCHANGED <<now, brokerVars, errorVars, viewVars, headerVars, initPc,
                 fetchVars, renewVars, guardVars, cbVars, callVars>>

\* loadUser(): what the call resolves with (NoUser: null), given what
\* getUser read (ok: the read succeeded)
loadUserReturn(stored, t, ok) ==
  IF ok /\ stored # NoUser /\ ~Expired(stored, t) THEN stored ELSE NoUser

\* A loadUser that drops the session it finds already loaded
loadUserSession_Toggles(stored, t, ok, cur) ==
  IF loadUserReturn(stored, t, ok) # NoUser
  THEN (IF cur = stored THEN NoUser ELSE stored)
  ELSE cur

\* loadUser(): this.currentUser when the call has resolved
loadUserSession(stored, t, ok, cur) ==
  IF loadUserReturn(stored, t, ok) # NoUser THEN stored ELSE cur

\* loadUser(): getUser settles
LoadUserDone(ok) ==
  /\ loadPending > 0
  /\ loadPending' = loadPending - 1
  /\ expiryTimer' = IF ok THEN storage # NoUser ELSE expiryTimer
  /\ currentUser' = loadUserSession(storage, now, ok, currentUser)
  /\ IF loadUserReturn(storage, now, ok) # NoUser
     THEN Publish(<<currentUser'>>)
     ELSE UNCHANGED viewVars
  /\ UNCHANGED <<now, storage, errorCallbacks, errorVars, headerVars,
                 initPc, fetchVars, renewVars, guardVars, cbVars, callVars>>

\* onUserChange without the immediate call of the new callback
onUserChange_NoReplay(h) ==
  /\ Len(userCallbacks) < MaxSubs
  /\ received[h].count < MaxChanges
  /\ userCallbacks' = Append(userCallbacks, h)
  /\ UNCHANGED <<now, storage, expiryTimer, currentUser, errorCallbacks, errorVars,
                 projectionVars, delivered, lateCall, headerVars, loadVars, fetchVars,
                 renewVars, guardVars, cbVars, callVars>>

\* onUserChange(callback)
\* push, then callback(this.currentUser): the handler's body runs once
onUserChange(h) ==
  LET v == HandlerBody(h, currentUser, [View EXCEPT !.userCallbacks = Append(@, h)])
  IN /\ Len(userCallbacks) < MaxSubs
     /\ received[h].count < MaxChanges
     /\ userCallbacks' = v.userCallbacks
     /\ received' = v.received
     /\ UNCHANGED <<now, storage, expiryTimer, currentUser, errorCallbacks, errorVars,
                    userStore, loadingStore, isAuthValue, headerIsAuthenticated, changes,
                    delivered, lateCall, headerVars, loadVars, fetchVars, renewVars,
                    guardVars, cbVars, callVars>>

\* the closure onUserChange returned
Unsubscribe(h) ==
  /\ h \in Range(userCallbacks)
  /\ userCallbacks' = Filtered(userCallbacks, h)
  /\ UNCHANGED <<now, storage, expiryTimer, currentUser, errorCallbacks, errorVars,
                 projectionVars, delivered, lateCall, headerVars, loadVars, fetchVars,
                 renewVars, guardVars, cbVars, callVars>>

\* onError(callback)
onError(h) ==
  /\ Len(errorCallbacks) < MaxErrorSubs
  /\ errorCallbacks' = Append(errorCallbacks, h)
  /\ UNCHANGED <<now, storage, expiryTimer, currentUser, errorVars,
                 viewVars, headerVars, loadVars, fetchVars, renewVars, guardVars, cbVars, callVars>>

\* the closure onError returned
UnsubscribeError(h) ==
  /\ h \in Range(errorCallbacks)
  /\ errorCallbacks' = SelectSeq(errorCallbacks, LAMBDA cb : cb # h)
  /\ UNCHANGED <<now, storage, expiryTimer, currentUser, errorVars,
                 viewVars, headerVars, loadVars, fetchVars, renewVars, guardVars, cbVars, callVars>>

\* ---------------------------------------------- UserManager event listeners
\* the access-token-expired listener without its notifyUserChange call
AccessTokenExpired_Silent ==
  /\ expiryTimer /\ storage # NoUser /\ Expired(storage, now)
  /\ expiryTimer' = FALSE
  /\ currentUser' = NoUser
  /\ UNCHANGED <<now, storage, errorCallbacks, errorVars, viewVars,
                 headerVars, loadVars, fetchVars, renewVars, guardVars, cbVars, callVars>>

\* the access-token-expired listener telling subscribers null while keeping
\* the session
AccessTokenExpired_KeepsSession ==
  /\ expiryTimer /\ storage # NoUser /\ Expired(storage, now)
  /\ expiryTimer' = FALSE
  /\ Publish(<<NoUser>>)
  /\ UNCHANGED <<now, storage, currentUser, errorCallbacks, errorVars,
                 headerVars, loadVars, fetchVars, renewVars, guardVars, cbVars, callVars>>

\* addAccessTokenExpired listener: the expiry timer of the loaded user fires
AccessTokenExpired ==
  /\ expiryTimer /\ storage # NoUser /\ Expired(storage, now)
  /\ expiryTimer' = FALSE
  /\ currentUser' = NoUser
  /\ Publish(<<NoUser>>)
  /\ UNCHANGED <<now, storage, errorCallbacks, errorVars, headerVars,
                 loadVars, fetchVars, renewVars, guardVars, cbVars, callVars>>

\* addUserSignedOut listener: the session monitor reports a sign-out at the
\* provider (monitorSession is on by default); storage is not cleared
UserSignedOut ==
  /\ storage # NoUser
  /\ currentUser' = NoUser
  /\ Publish(<<NoUser>>)
  /\ UNCHANGED <<now, storage, expiryTimer, errorCallbacks, errorVars,
                 headerVars, loadVars, fetchVars, renewVars, guardVars, cbVars, callVars>>

\* addUserLoaded listener, raised by the automatic silent renewal
\* (automaticSilentRenew is on by default)
AutomaticRenewLoaded(u) ==
  /\ storage # NoUser
  /\ storage' = u
  /\ expiryTimer' = TRUE
  /\ currentUser' = u
  /\ Publish(<<u>>)
  /\ UNCHANGED <<now, errorCallbacks, errorVars, headerVars,
                 loadVars, fetchVars, renewVars, guardVars, cbVars, callVars>>

\* addSilentRenewError listener
SilentRenewError ==
  /\ storage # NoUser
  /\ notifyError(SomeError)
  /\ UNCHANGED <<now, brokerVars, viewVars, headerVars, loadVars, fetchVars,
                 renewVars, guardVars, cbVars, callVars>>

\* addSilentRenewError listener, the automatic renewal having been refused
\* by the provider because the session there is gone
SilentRenewSessionInvalid ==
  /\ storage # NoUser
  /\ notifyError(SessionInvalid)
  /\ UNCHANGED <<now, brokerVars, viewVars, headerVars, loadVars, fetchVars,
                 renewVars, guardVars, cbVars, callVars>>

\* ------------------------------------------------------- silent renewal
\* signinSilent() is called: renewal s is initiated (in the order 1, 2, ...)
signinSilentStart(s) ==
  /\ renewPc[s] = "idle"
  /\ \A q \in 1..(s - 1) : renewPc[q] # "idle"
  /\ renewPc' = [renewPc EXCEPT ![s] = "pending"]
  /\ UNCHANGED <<now, brokerVars, errorVars, viewVars, headerVars, loadVars, fetchVars,
                 renewUser, guardVars, cbVars, callVars>>

\* signinSilent(): userManager.signinSilent() settles with a user.  The
\* UserManager stores the user and raises user-loaded before the promise
\* resolves, then the continuation assigns and notifies again.
signinSilentUser(s, u) ==
  /\ renewPc[s] = "pending"
  /\ renewPc' = [renewPc EXCEPT ![s] = "done"]
  /\ renewUser' = [renewUser EXCEPT ![s] = u]
  /\ storage' = u
  /\ expiryTimer' = TRUE
  /\ currentUser' = u
  /\ Publish(<<u, u>>)
  /\ UNCHANGED <<now, errorCallbacks, errorVars, headerVars, loadVars,
                 fetchVars, guardVars, cbVars, callVars>>

\* signinSilent whose catch block also drops the session and publishes null
signinSilentNone_Clears(s, ok) ==
  /\ renewPc[s] = "pending"
  /\ renewPc' = [renewPc EXCEPT ![s] = "done"]
  /\ IF ok
     THEN UNCHANGED <<errorVars, currentUser, viewVars>>
     ELSE notifyError(SomeError) /\ currentUser' = NoUser /\ Publish(<<NoUser>>)
  /\ UNCHANGED <<now, storage, expiryTimer, errorCallbacks, headerVars,
                 loadVars, fetchVars, renewUser, guardVars, cbVars, callVars>>

\* signinSilent(): the UserManager yields null (ok) or rejects (~ok)
signinSilentNone(s, ok) ==
  /\ renewPc[s] = "pending"
  /\ renewPc' = [renewPc EXCEPT ![s] = "done"]
  /\ IF ok THEN UNCHANGED errorVars ELSE notifyError(SomeError)
  /\ UNCHANGED <<now, brokerVars, viewVars, headerVars, loadVars, fetchVars, renewUser,
                 guardVars, cbVars, callVars>>

\* signinSilent(): the UserManager rejects with the provider's error
\* response that the session is invalid; the catch block notifies the error
\* and returns null
signinSilentSessionInvalid(s) ==
  /\ renewPc[s] = "pending"
  /\ renewPc' = [renewPc EXCEPT ![s] = "done"]
  /\ notifyError(SessionInvalid)
  /\ UNCHANGED <<now, brokerVars, viewVars, headerVars, loadVars, fetchVars, renewUser,
                 guardVars, cbVars, callVars>>

\* signinSilentCallback(): signinSilentCallback and getUser settle
signinSilentCallback(ok) ==
  /\ IF ok
     THEN /\ expiryTimer' = (storage # NoUser)
          /\ IF storage # NoUser
             THEN currentUser' = storage /\ Publish(<<storage>>)
             ELSE UNCHANGED <<currentUser, viewVars>>
          /\ UNCHANGED errorVars
     ELSE /\ notifyError(SomeError)
          /\ UNCHANGED <<expiryTimer, currentUser, viewVars>>
  /\ UNCHANGED <<now, storage, errorCallbacks, headerVars, loadVars,
                 fetchVars, renewVars, guardVars, cbVars, callVars>>

\* signoutRedirect() called by the application settles.  unloaded: the
\* UserManager removed the stored user and raised user-unloaded while
\* starting the redirect (the user-unloaded listener clears and notifies);
\* signoutRedirect itself assigns nothing.  On failure it notifies the error
\* and rethrows.
signoutRedirect(ok, unloaded) ==
  /\ IF ok
     THEN /\ IF unloaded
             THEN /\ storage' = NoUser
                  /\ expiryTimer' = FALSE
                  /\ currentUser' = NoUser
                  /\ Publish(<<NoUser>>)
             ELSE UNCHANGED <<storage, expiryTimer, currentUser, viewVars>>
          /\ UNCHANGED errorVars
     ELSE /\ ~unloaded
          /\ notifyError(SomeError)
          /\ UNCHANGED <<storage, expiryTimer, currentUser, viewVars>>
  /\ UNCHANGED <<now, errorCallbacks, headerVars, loadVars, fetchVars,
                 renewVars, guardVars, cbVars, callVars>>

\* signoutRedirectCallback that clears the session without telling subscribers
signoutRedirectCallback_NoPublish(ok) ==
  /\ IF ok
     THEN /\ currentUser' = NoUser
          /\ UNCHANGED <<viewVars, errorVars>>
     ELSE /\ notifyError(SomeError)
          /\ UNCHANGED <<currentUser, viewVars>>
  /\ UNCHANGED <<now, storage, expiryTimer, errorCallbacks, headerVars,
                 loadVars, fetchVars, renewVars, guardVars, cbVars, callVars>>

\* signoutRedirectCallback(): the UserManager processes the sign-out response
signoutRedirectCallback(ok) ==
  /\ IF ok
     THEN /\ currentUser' = NoUser
          /\ Publish(<<NoUser>>)
          /\ UNCHANGED errorVars
     ELSE /\ notifyError(SomeError)
          /\ UNCHANGED <<currentUser, viewVars>>
  /\ UNCHANGED <<now, storage, expiryTimer, errorCallbacks, headerVars,
                 loadVars, fetchVars, renewVars, guardVars, cbVars, callVars>>

\* ------------------------------------------------------------- authFetch
\* shouldAddAuthHeader with the base URL tested before the exclusions
shouldAddAuthHeader_BaseFirst(url, config) ==
  IF config.apiBaseUrl # NoUrl /\ StartsWith(url, config.apiBaseUrl) THEN TRUE
  ELSE IF Includes(url, <<"i18n">>) \/ Includes(url, <<"/locales/">>) THEN FALSE
  ELSE IF \E excludeUrl \in config.excludeUrls : Includes(url, excludeUrl) THEN FALSE
  ELSE IF \E addUrl \in config.additionalUrls : StartsWith(url, addUrl) THEN TRUE
  ELSE config.apiBaseUrl = NoUrl /\ config.additionalUrls = {}

\* createAuthFetch.shouldAddAuthHeader, its tests in the order of the code
shouldAddAuthHeader(url, config) ==
  IF Includes(url, <<"i18n">>) \/ Includes(url, <<"/locales/">>) THEN FALSE
  ELSE IF \E excludeUrl \in config.excludeUrls : Includes(url, excludeUrl) THEN FALSE
  ELSE IF config.apiBaseUrl # NoUrl /\ StartsWith(url, config.apiBaseUrl) THEN TRUE
  ELSE IF \E addUrl \in config.additionalUrls : StartsWith(url, addUrl) THEN TRUE
  ELSE IF config.apiBaseUrl = NoUrl /\ config.additionalUrls = {} THEN TRUE
  ELSE FALSE

\* authFetch(url) evaluates shouldAddAuthHeader(url)
authFetchDecide(url) ==
  /\ fetchUrl' = url
  /\ fetchAttach' = shouldAddAuthHeader(url, interceptorConfig)
  /\ UNCHANGED <<now, brokerVars, errorVars, viewVars, headerVars, loadVars, fetchVars,
                 renewVars, guardVars, cbVars, removeResult, interceptorConfig, behaviour,
                 requireVars, staleVars, profileVars, appVars,
                 registryVars>>

Statuses == {200, 401, 403, 500}

\* getAuthorizationHeaderValue, as the token it carries (0: the empty string)
getAuthorizationHeaderValue == IF currentUser # NoUser THEN currentUser.access_token ELSE 0

\* authFetch(input), call r (calls numbered in the order they are made): the
\* header is built and fetch is issued; attach is shouldAddAuthHeader(url)
\* for the requested URL
authFetchStart(r, attach) ==
  /\ fetchPc[r] = "idle"
  /\ \A q \in 1..(r - 1) : fetchPc[q] # "idle"
  /\ fetchPc' = [fetchPc EXCEPT ![r] = "fetch"]
  /\ fetchHeader' = [fetchHeader EXCEPT ![r] = IF attach THEN getAuthorizationHeaderValue ELSE 0]
  /\ UNCHANGED <<now, brokerVars, errorVars, viewVars, headerVars, loadVars,
                 fetchStatus, fetchResult, removeCalls, signoutCalls,
                 onUnauthorizedCalls, onForbiddenCalls, renewVars, guardVars, cbVars, callVars>>

\* fetch rejects: the catch block rethrows
authFetchNetworkError(r) ==
  /\ fetchPc[r] = "fetch"
  /\ fetchPc' = [fetchPc EXCEPT ![r] = "done"]
  /\ fetchResult' = [fetchResult EXCEPT ![r] = "rejected"]
  /\ UNCHANGED <<now, brokerVars, errorVars, viewVars, headerVars, loadVars,
                 fetchHeader, fetchStatus, removeCalls, signoutCalls,
                 onUnauthorizedCalls, onForbiddenCalls, renewVars, guardVars, cbVars, callVars>>

\* authFetch that treats 403 like 401
authFetchResponse_403SignsOut(r, status) ==
  /\ fetchPc[r] = "fetch"
  /\ fetchStatus' = [fetchStatus EXCEPT ![r] = status]
  /\ IF status \in {401, 403}
     THEN /\ fetchPc' = [fetchPc EXCEPT ![r] = "removeUser"]
          /\ removeCalls' = removeCalls + 1
          /\ UNCHANGED <<fetchResult, onForbiddenCalls>>
     ELSE /\ fetchPc' = [fetchPc EXCEPT ![r] = "done"]
          /\ fetchResult' = [fetchResult EXCEPT ![r] = "resolved"]
          /\ UNCHANGED <<removeCalls, onForbiddenCalls>>
  /\ UNCHANGED <<now, brokerVars, errorVars, viewVars, headerVars, loadVars,
                 fetchHeader, signoutCalls, onUnauthorizedCalls, renewVars, guardVars,
                 cbVars, callVars>>

\* fetch resolves with a response of the given status
authFetchResponse(r, status) ==
  /\ fetchPc[r] = "fetch"
  /\ fetchStatus' = [fetchStatus EXCEPT ![r] = status]
  /\ IF status = 401
     THEN /\ fetchPc' = [fetchPc EXCEPT ![r] = "removeUser"]
          /\ removeCalls' = removeCalls + 1
          /\ UNCHANGED <<fetchResult, onForbiddenCalls>>
     ELSE /\ fetchPc' = [fetchPc EXCEPT ![r] = "done"]
          /\ onForbiddenCalls' = IF status = 403 THEN onForbiddenCalls + 1 ELSE onForbiddenCalls
          /\ fetchResult' = [fetchResult EXCEPT ![r] = "resolved"]
          /\ UNCHANGED removeCalls
  /\ UNCHANGED <<now, brokerVars, errorVars, viewVars, headerVars, loadVars,
                 fetchHeader, signoutCalls, onUnauthorizedCalls, renewVars, guardVars, cbVars, callVars>>

\* removeUser(): clearStaleState and userManager.removeUser settle.  On
\* success the UserManager has cleared storage and raised user-unloaded (its
\* listener clears and notifies), then removeUser clears and notifies again;
\* on failure removeUser notifies the error and rethrows.
removeUserSettles(ok) ==
  IF ok
  THEN /\ storage' = NoUser
       /\ expiryTimer' = FALSE
       /\ currentUser' = NoUser
       /\ Publish(<<NoUser, NoUser>>)
       /\ UNCHANGED errorVars
  ELSE /\ notifyError(SomeError)
       /\ UNCHANGED <<storage, expiryTimer, currentUser, viewVars>>

\* removeUser whose catch block clears the session before rethrowing
removeUser_ClearsOnFailure(ok) ==
  /\ IF ok
     THEN removeUserSettles(TRUE)
     ELSE /\ notifyError(SomeError)
          /\ currentUser' = NoUser
          /\ Publish(<<NoUser>>)
          /\ UNCHANGED <<storage, expiryTimer>>
  /\ removeResult' = IF ok THEN "resolved" ELSE "rejected"
  /\ UNCHANGED <<now, errorCallbacks, headerVars, loadVars, fetchVars,
                 renewVars, guardVars, cbVars, urlVars, behaviour, requireVars, staleVars, profileVars, appVars, registryVars>>

\* removeUser() called by the application: it resolves, or rethrows to the
\* caller what the UserManager threw
removeUser(ok) ==
  /\ removeUserSettles(ok)
  /\ removeResult' = IF ok THEN "resolved" ELSE "rejected"
  /\ UNCHANGED <<now, errorCallbacks, headerVars, loadVars, fetchVars,
                 renewVars, guardVars, cbVars, urlVars, behaviour, requireVars, staleVars, profileVars, appVars, registryVars>>

\* clearStaleState() called by the application settles: the catch block logs
\* what the UserManager threw and the call resolves either way
clearStaleState(ok) ==
  /\ staleResult' = "resolved"
  /\ UNCHANGED <<now, brokerVars, errorVars, viewVars, headerVars, loadVars, fetchVars,
                 renewVars, guardVars, cbVars, removeResult, urlVars, behaviour,
                 requireVars, profileVars, appVars, registryVars>>

\* removeUser() settles inside authFetch: authFetch goes on to
\* signoutRedirect, or rethrows what removeUser threw
authFetchRemoveUserDone(r, ok) ==
  /\ fetchPc[r] = "removeUser"
  /\ removeUserSettles(ok)
  /\ IF ok
     THEN /\ fetchPc' = [fetchPc EXCEPT ![r] = "signoutRedirect"]
          /\ signoutCalls' = signoutCalls + 1
          /\ UNCHANGED fetchResult
     ELSE /\ fetchPc' = [fetchPc EXCEPT ![r] = "done"]
          /\ fetchResult' = [fetchResult EXCEPT ![r] = "rejected"]
          /\ UNCHANGED signoutCalls
  /\ UNCHANGED <<now, errorCallbacks, headerVars, loadVars, fetchHeader,
                 fetchStatus, removeCalls, onUnauthorizedCalls, onForbiddenCalls,
                 renewVars, guardVars, cbVars, callVars>>

\* signoutRedirect() settles inside authFetch.  unloaded: the UserManager
\* removed the user and raised user-unloaded while building the redirect.
authFetchSignoutDone(r, ok, unloaded) ==
  /\ fetchPc[r] = "signoutRedirect"
  /\ fetchPc' = [fetchPc EXCEPT ![r] = "done"]
  /\ IF ok
     THEN /\ IF unloaded
             THEN /\ storage' = NoUser
                  /\ expiryTimer' = FALSE
                  /\ currentUser' = NoUser
                  /\ Publish(<<NoUser>>)
             ELSE UNCHANGED <<storage, expiryTimer, currentUser, viewVars>>
          /\ onUnauthorizedCalls' = onUnauthorizedCalls + 1
          /\ fetchResult' = [fetchResult EXCEPT ![r] = "resolved"]
          /\ UNCHANGED errorVars
     ELSE /\ ~unloaded
          /\ notifyError(SomeError)
          /\ fetchResult' = [fetchResult EXCEPT ![r] = "rejected"]
          /\ UNCHANGED <<storage, expiryTimer, currentUser, viewVars, onUnauthorizedCalls>>
  /\ UNCHANGED <<now, errorCallbacks, headerVars, loadVars, fetchHeader,
                 fetchStatus, removeCalls, signoutCalls, onForbiddenCalls,
                 renewVars, guardVars, cbVars, callVars>>

\* ---------------------------------------------------------- createAuthApi
\* response.ok
ResponseOk(status) == status \in 200..299

\* response.json(): parses the body; an empty body is not JSON
responseJson(body) == IF body = "json" THEN "parsed" ELSE "syntaxError"

\* get, post, put, patch, del: what the verb does with the response authFetch
\* resolved with.  contentTypeJson: the content-type header includes
\* 'application/json'
afterFetch(verb, status, contentTypeJson, body) ==
  IF ~ResponseOk(status) THEN VerbOutcome(verb, "httpError", status)
  ELSE IF verb = "delete" /\ ~contentTypeJson THEN VerbOutcome(verb, "undefined", 0)
  ELSE VerbOutcome(verb, responseJson(body), 0)

\* A verb is called: it calls authFetch(url, {...init, method}), call r
verbStart(r, verb, attach) ==
  /\ fetchPc[r] = "idle"
  /\ \A q \in 1..(r - 1) : fetchPc[q] # "idle"
  /\ fetchPc' = [fetchPc EXCEPT ![r] = "fetch"]
  /\ fetchHeader' = [fetchHeader EXCEPT ![r] = IF attach THEN getAuthorizationHeaderValue ELSE 0]
  /\ apiCall' = [apiCall EXCEPT ![r] = VerbOutcome(verb, "await", 0)]
  /\ UNCHANGED <<now, brokerVars, errorVars, viewVars, headerVars, loadVars,
                 fetchStatus, fetchResult, removeCalls, signoutCalls,
                 onUnauthorizedCalls, onForbiddenCalls, renewVars, guardVars, cbVars,
                 removeResult, urlVars, behaviour, requireVars, staleVars, profileVars,
                 mounts, accessors, loggedOut, registryVars>>

\* The verb resumes after `await authFetch(...)`: a rejection passes through,
\* a response is handled by the verb
verbSettle(r, contentTypeJson, body) ==
  /\ apiCall[r].result = "await"
  /\ fetchPc[r] = "done"
  /\ apiCall' = [apiCall EXCEPT ![r] =
                   IF fetchResult[r] = "rejected"
                   THEN VerbOutcome(apiCall[r].verb, "rejected", 0)
                   ELSE afterFetch(apiCall[r].verb, fetchStatus[r], contentTypeJson, body)]
  /\ UNCHANGED <<now, brokerVars, errorVars, viewVars, headerVars, loadVars, fetchVars,
                 renewVars, guardVars, cbVars, removeResult, urlVars, behaviour,
                 requireVars, staleVars, profileVars, mounts, accessors, loggedOut, registryVars>>

\* ---------------------------------------------------------------- guards
\* signinRedirect that never sets args.state
signinRedirectState_Dropped(location) == NoState

\* signinRedirect: args.state is { url: options.location } when a location is given
signinRedirectState(location) == IF location # NoLoc THEN location ELSE NoState

\* canActivate: options.returnUrl || window.location.pathname + search
returnUrlOf(options) ==
  IF options.returnUrl # NoLoc THEN options.returnUrl ELSE WindowLocation

\* the role check with every() in place of some()
hasRequiredRole_All(requiredRoles, currentRoles) ==
  \A role \in requiredRoles : role \in Range(currentRoles)

\* canActivate: requiredRoles.some(role => currentRoles.includes(role))
hasRequiredRole(requiredRoles, currentRoles) ==
  \E role \in requiredRoles : role \in Range(currentRoles)

\* canActivate(options) is called (call g, calls numbered in the order they
\* are made): it awaits isLoggedIn()
canActivateStart(g, returnUrl, requiredRoles) ==
  /\ guardPc[g] = "idle"
  /\ \A q \in 1..(g - 1) : guardPc[q] # "idle"
  /\ guardPc' = [guardPc EXCEPT ![g] = "isLoggedIn"]
  /\ guardOpts' = [guardOpts EXCEPT ![g] = [returnUrl |-> returnUrl, requiredRoles |-> requiredRoles]]
  /\ UNCHANGED <<now, brokerVars, errorVars, viewVars, headerVars, loadVars, fetchVars,
                 renewVars, guardResult, signinCalls, signinArgs, oidcState, cbVars, callVars>>

\* isLoggedIn() rejects (getUser failed): canActivate rejects
canActivateLoginCheckFails(g) ==
  /\ guardPc[g] = "isLoggedIn"
  /\ guardPc' = [guardPc EXCEPT ![g] = "done"]
  /\ guardResult' = [guardResult EXCEPT ![g] = "rejected"]
  /\ UNCHANGED <<now, brokerVars, errorVars, viewVars, headerVars, loadVars, fetchVars,
                 renewVars, guardOpts, signinCalls, signinArgs, oidcState, cbVars, callVars>>

\* isLoggedIn() settles: user !== null && !user.expired on the stored user.
\* Not logged in: signinRedirect is called with the return URL.
\* Logged in: the role requirement is checked against the roles store.
canActivateLoggedIn(g) ==
  /\ guardPc[g] = "isLoggedIn"
  /\ expiryTimer' = (storage # NoUser)
  /\ IF ~(storage # NoUser /\ ~Expired(storage, now))
     THEN /\ guardPc' = [guardPc EXCEPT ![g] = "signinRedirect"]
          /\ signinCalls' = [signinCalls EXCEPT ![g] = @ + 1]
          /\ signinArgs' = [signinArgs EXCEPT ![g] = signinRedirectState(returnUrlOf(guardOpts[g]))]
          /\ UNCHANGED guardResult
     ELSE /\ guardPc' = [guardPc EXCEPT ![g] = "done"]
          /\ guardResult' = [guardResult EXCEPT ![g] =
               IF guardOpts[g].requiredRoles # {}
                  /\ ~hasRequiredRole(guardOpts[g].requiredRoles, roles(userStore))
               THEN "false" ELSE "true"]
          /\ UNCHANGED <<signinCalls, signinArgs>>
  /\ UNCHANGED <<now, storage, currentUser, errorCallbacks, errorVars,
                 viewVars, headerVars, loadVars, fetchVars, renewVars, guardOpts,
                 oidcState, cbVars, callVars>>

\* signinRedirect() settles inside canActivate: the UserManager has stored
\* the protocol state and navigates (ok), or signinRedirect notifies the
\* error and rethrows
canActivateRedirectDone(g, ok) ==
  /\ guardPc[g] = "signinRedirect"
  /\ guardPc' = [guardPc EXCEPT ![g] = "done"]
  /\ IF ok
     THEN /\ oidcState' = [oidcState EXCEPT ![g] = signinArgs[g]]
          /\ guardResult' = [guardResult EXCEPT ![g] = "false"]
          /\ UNCHANGED errorVars
     ELSE /\ notifyError(SomeError)
          /\ guardResult' = [guardResult EXCEPT ![g] = "rejected"]
          /\ UNCHANGED oidcState
  /\ UNCHANGED <<now, brokerVars, viewVars, headerVars, loadVars, fetchVars, renewVars,
                 guardOpts, signinCalls, signinArgs, cbVars, callVars>>

\* requireAuth(options) is called: it calls canActivate(options) and awaits it
requireAuthStart(g, returnUrl, requiredRoles) ==
  /\ guardPc[g] = "idle"
  /\ \A q \in 1..(g - 1) : guardPc[q] # "idle"
  /\ guardPc' = [guardPc EXCEPT ![g] = "isLoggedIn"]
  /\ guardOpts' = [guardOpts EXCEPT ![g] = [returnUrl |-> returnUrl, requiredRoles |-> requiredRoles]]
  /\ requireResult' = [requireResult EXCEPT ![g] = "await"]
  /\ UNCHANGED <<now, brokerVars, errorVars, viewVars, headerVars, loadVars, fetchVars,
                 renewVars, guardResult, signinCalls, signinArgs, oidcState, cbVars,
                 removeResult, urlVars, behaviour, staleVars, profileVars, appVars, registryVars>>

\* requireAuth that completes normally whatever canActivate yields
requireAuthDone_Swallows(g) ==
  /\ requireResult[g] = "await"
  /\ guardPc[g] = "done"
  /\ requireResult' = [requireResult EXCEPT ![g] =
       IF guardResult[g] = "rejected" THEN "rejected" ELSE "resolved"]
  /\ UNCHANGED <<now, brokerVars, errorVars, viewVars, headerVars, loadVars, fetchVars,
                 renewVars, guardVars, cbVars, removeResult, urlVars, behaviour, staleVars, profileVars, appVars,
                 registryVars>>

\* requireAuth: canActivate has settled; throw new Error('Authentication
\* required') on false, and a rejection of canActivate passes through
requireAuthDone(g) ==
  /\ requireResult[g] = "await"
  /\ guardPc[g] = "done"
  /\ requireResult' = [requireResult EXCEPT ![g] =
       CASE guardResult[g] = "true" -> "resolved"
         [] guardResult[g] = "false" -> "threw"
         [] OTHER -> "rejected"]
  /\ UNCHANGED <<now, brokerVars, errorVars, viewVars, headerVars, loadVars, fetchVars,
                 renewVars, guardVars, cbVars, removeResult, urlVars, behaviour, staleVars, profileVars, appVars,
                 registryVars>>

\* AuthHeader login(): authService.signinRedirect() with no options settles.
\* The protocol state it stores (slot 0) carries no return location.
AuthHeaderLogin(ok) ==
  /\ oidcState[0] = "absent"
  /\ IF ok
     THEN /\ oidcState' = [oidcState EXCEPT ![0] = signinRedirectState(NoLoc)]
          /\ UNCHANGED errorVars
     ELSE /\ notifyError(SomeError)
          /\ UNCHANGED oidcState
  /\ UNCHANGED <<now, brokerVars, viewVars, headerVars, loadVars, fetchVars, renewVars,
                 guardPc, guardOpts, guardResult, signinCalls, signinArgs, cbVars, callVars>>

\* ------------------------------------------------ createRequireAuthAction
\* requireAuth(node, {}): checkAuth() is called, then
\* authStores.isAuthenticated.subscribe(() => checkAuth()), and a store's
\* subscribe calls the new subscriber at once: two checkAuth calls are
\* awaiting isLoggedIn() when the action returns.  (The subscriber is called
\* again when isAuthenticated changes.)
requireAuthMount(n) ==
  /\ mounts[n] = NotMounted
  /\ \A q \in 1..(n - 1) : mounts[q] # NotMounted
  /\ mounts' = [mounts EXCEPT ![n].checks = <<"isLoggedIn", "isLoggedIn">>]
  /\ UNCHANGED <<now, brokerVars, errorVars, viewVars, headerVars, loadVars, fetchVars,
                 renewVars, guardVars, cbVars, removeResult, urlVars, behaviour,
                 requireVars, staleVars, profileVars, apiCall, accessors, loggedOut, registryVars>>

\* checkAuth call i of element n: isLoggedIn() rejects, so canActivate and
\* checkAuth reject and the element is left as it is
checkAuthLoginCheckFails(n, i) ==
  /\ i \in DOMAIN mounts[n].checks
  /\ mounts[n].checks[i] = "isLoggedIn"
  /\ mounts' = [mounts EXCEPT ![n].checks[i] = "rejected"]
  /\ UNCHANGED <<now, brokerVars, errorVars, viewVars, headerVars, loadVars, fetchVars,
                 renewVars, guardVars, cbVars, removeResult, urlVars, behaviour,
                 requireVars, staleVars, profileVars, apiCall, accessors, loggedOut, registryVars>>

\* checkAuth call i of element n: isLoggedIn() settles in canActivate({}).
\* Not logged in: signinRedirect is called.  Logged in: no roles are
\* required, canActivate resolves true and the element is shown.
checkAuthLoggedIn(n, i) ==
  /\ i \in DOMAIN mounts[n].checks
  /\ mounts[n].checks[i] = "isLoggedIn"
  /\ expiryTimer' = (storage # NoUser)
  /\ mounts' = IF ~(storage # NoUser /\ ~Expired(storage, now))
               THEN [mounts EXCEPT ![n].checks[i] = "signinRedirect",
                                   ![n].signins = @ + 1]
               ELSE [mounts EXCEPT ![n].checks[i] = "done", ![n].display = ""]
  /\ UNCHANGED <<now, storage, currentUser, errorCallbacks, errorVars, viewVars,
                 headerVars, loadVars, fetchVars, renewVars, guardVars, cbVars,
                 removeResult, urlVars, behaviour, requireVars, staleVars, profileVars,
                 apiCall, accessors, loggedOut, registryVars>>

\* checkAuth call i of element n: signinRedirect() settles.  ok: canActivate
\* returns false and the element is hidden; else signinRedirect notifies the
\* error and rethrows, and checkAuth rejects
checkAuthRedirectDone(n, i, ok) ==
  /\ i \in DOMAIN mounts[n].checks
  /\ mounts[n].checks[i] = "signinRedirect"
  /\ IF ok
     THEN /\ mounts' = [mounts EXCEPT ![n].checks[i] = "done", ![n].display = "none"]
          /\ UNCHANGED errorVars
     ELSE /\ mounts' = [mounts EXCEPT ![n].checks[i] = "rejected"]
          /\ notifyError(SomeError)
  /\ UNCHANGED <<now, brokerVars, viewVars, headerVars, loadVars, fetchVars, renewVars,
                 guardVars, cbVars, removeResult, urlVars, behaviour, requireVars,
                 staleVars, profileVars, apiCall, accessors, loggedOut, registryVars>>

\* ------------------------------------------------------ HeadlessLoggedOut
\* The component is created and mounted: countdown = Math.ceil(redirectDelay
\* / 1000), and onMount calls handleLogout, which awaits
\* signoutRedirectCallback()
LoggedOutMount(seconds, autoRedirect) ==
  /\ loggedOut.pc = "unmounted"
  /\ loggedOut' = [loggedOut EXCEPT !.pc = "callback", !.countdown = seconds,
                                    !.autoRedirect = autoRedirect]
  /\ UNCHANGED <<now, brokerVars, errorVars, viewVars, headerVars, loadVars, fetchVars,
                 renewVars, guardVars, cbVars, removeResult, urlVars, behaviour,
                 requireVars, staleVars, profileVars, apiCall, mounts, accessors,
                 registryVars>>

\* handleLogout resumes: signoutRedirectCallback() has settled (either way
\* isComplete is set), and with autoRedirect the interval is started and its
\* id stored in intervalId
handleLogout(ok) ==
  /\ loggedOut.pc = "callback"
  /\ IF ok
     THEN /\ currentUser' = NoUser
          /\ Publish(<<NoUser>>)
          /\ UNCHANGED errorVars
     ELSE /\ notifyError(SomeError)
          /\ UNCHANGED <<currentUser, viewVars>>
  /\ loggedOut' = IF loggedOut.autoRedirect
                  THEN [loggedOut EXCEPT !.pc = "settled", !.intervalId = "id",
                                         !.ticking = TRUE]
                  ELSE [loggedOut EXCEPT !.pc = "settled"]
  /\ UNCHANGED <<now, storage, expiryTimer, errorCallbacks, headerVars, loadVars,
                 fetchVars, renewVars, guardVars, cbVars, removeResult, urlVars,
                 behaviour, requireVars, staleVars, profileVars, apiCall, mounts,
                 accessors, registryVars>>

\* The interval fires: countdown--, and at countdown <= 0 the interval is
\* cleared and handleRedirect() navigates
countdownTick ==
  /\ loggedOut.ticking
  /\ loggedOut' = IF loggedOut.countdown - 1 <= 0
                  THEN [loggedOut EXCEPT !.countdown = @ - 1, !.ticking = FALSE,
                                         !.redirects = @ + 1]
                  ELSE [loggedOut EXCEPT !.countdown = @ - 1]
  /\ UNCHANGED <<now, brokerVars, errorVars, viewVars, headerVars, loadVars, fetchVars,
                 renewVars, guardVars, cbVars, removeResult, urlVars, behaviour,
                 requireVars, staleVars, profileVars, apiCall, mounts, accessors,
                 registryVars>>

\* cancelRedirect(), called from the slot: if (intervalId) { clearInterval;
\* intervalId = 0 }
cancelRedirect ==
  /\ loggedOut.pc # "unmounted"
  /\ ~loggedOut.cancelCalled
  /\ loggedOut' = IF loggedOut.intervalId = "id"
                  THEN [loggedOut EXCEPT !.intervalId = "0", !.ticking = FALSE,
                                         !.cancelCalled = TRUE]
                  ELSE [loggedOut EXCEPT !.cancelCalled = TRUE]
  /\ UNCHANGED <<now, brokerVars, errorVars, viewVars, headerVars, loadVars, fetchVars,
                 renewVars, guardVars, cbVars, removeResult, urlVars, behaviour,
                 requireVars, staleVars, profileVars, apiCall, mounts, accessors,
                 registryVars>>

\* ---------------------------------------------------------- AuthCallback
\* AuthCallback: (user.state as any)?.url || defaultRedirect
callbackReturnUrl(user) == IF user.state # NoState THEN user.state ELSE DefaultRedirect

\* signinRedirectCallback that returns the user without assigning or
\* notifying, and with the user-loaded listener not wired
AuthCallbackSuccess_NoNotify(g, u) ==
  LET user == [u EXCEPT !.state = oidcState[g]]
  IN /\ cbCount < MaxCallbacks
     /\ oidcState[g] \notin {"absent", "used"}
     /\ oidcState' = [oidcState EXCEPT ![g] = "used"]
     /\ storage' = user
     /\ expiryTimer' = TRUE
     /\ cbCount' = cbCount + 1
     /\ cbResult' = [redirect |-> g, status |-> "ok", user |-> user,
                     returnUrl |-> callbackReturnUrl(user)]
     /\ UNCHANGED <<now, currentUser, errorCallbacks, errorVars, viewVars,
                    headerVars, loadVars, fetchVars, renewVars, guardPc, guardOpts,
                    guardResult, signinCalls, signinArgs, callVars>>

\* onMount on the callback route of redirect g, signinRedirectCallback succeeds:
\* the UserManager matches and consumes the stored state, stores the user and
\* raises user-loaded; signinRedirectCallback assigns, notifies and returns
\* the user; the component reads the return URL from user.state.
AuthCallbackSuccess(g, u) ==
  LET user == [u EXCEPT !.state = oidcState[g]]
  IN /\ cbCount < MaxCallbacks
     /\ oidcState[g] \notin {"absent", "used"}
     /\ oidcState' = [oidcState EXCEPT ![g] = "used"]
     /\ storage' = user
     /\ expiryTimer' = TRUE
     /\ currentUser' = user
     /\ Publish(<<user, user>>)
     /\ cbCount' = cbCount + 1
     /\ cbResult' = [redirect |-> g, status |-> "ok", user |-> user,
                     returnUrl |-> callbackReturnUrl(user)]
     /\ UNCHANGED <<now, errorCallbacks, errorVars, headerVars, loadVars,
                    fetchVars, renewVars, guardPc, guardOpts, guardResult, signinCalls,
                    signinArgs, callVars>>

\* a failing signinRedirectCallback that clears the session and publishes null
AuthCallbackFailure_Clears(g) ==
  /\ cbCount < MaxCallbacks
  /\ notifyError(SomeError)
  /\ currentUser' = NoUser
  /\ Publish(<<NoUser>>)
  /\ cbCount' = cbCount + 1
  /\ cbResult' = [redirect |-> g, status |-> "error", user |-> NoUser, returnUrl |-> NoLoc]
  /\ UNCHANGED <<now, storage, expiryTimer, errorCallbacks, headerVars,
                 loadVars, fetchVars, renewVars, guardVars, callVars>>

\* onMount, signinRedirectCallback fails (no matching state, revoked code,
\* provider error): it notifies the error and rethrows; the component
\* records the error.
AuthCallbackFailure(g) ==
  /\ cbCount < MaxCallbacks
  /\ notifyError(SomeError)
  /\ cbCount' = cbCount + 1
  /\ cbResult' = [redirect |-> g, status |-> "error", user |-> NoUser, returnUrl |-> NoLoc]
  /\ UNCHANGED <<now, brokerVars, viewVars, headerVars, loadVars, fetchVars, renewVars,
                 guardVars, callVars>>

\* ------------------------------------------------------- specifications
\* The two loads that are pending once initAuth has returned
Startup ==
  \/ \E ok \in BOOLEAN : InitDone(ok)
  \/ \E ok \in BOOLEAN : LoadUserDone(ok)

\* The broker, its events and the projection
NextSession ==
  \/ Startup
  \/ Tick
  \/ AuthHeaderMount
  \/ LoadUserStart
  \/ AccessTokenExpired
  \/ UserSignedOut
  \/ \E u \in Issued(now) : AutomaticRenewLoaded(u)
  \/ SilentRenewError
  \/ \E ok \in BOOLEAN : signinSilentCallback(ok)
  \/ \E ok \in BOOLEAN : signoutRedirectCallback(ok)
  \/ \E ok \in BOOLEAN : removeUser(ok)
  \/ \E ok \in BOOLEAN : AuthHeaderLogin(ok)
  \/ \E u \in Issued(now) : AuthCallbackSuccess(0, u)
  \/ AuthCallbackFailure(0)

\* Application subscribers of the broker
NextSubscribe ==
  \/ Startup
  \/ \E h \in AppHandlers : onUserChange(h)
  \/ \E h \in AppHandlers : Unsubscribe(h)

\* The local clearing of the session, with application subscribers
NextRemove ==
  \/ Startup
  \/ \E h \in AppHandlers : onUserChange(h)
  \/ \E ok \in BOOLEAN : removeUser(ok)

\* The sign-in callback page, with application subscribers
NextCallback ==
  \/ Startup
  \/ \E h \in AppHandlers : onUserChange(h)
  \/ \E ok \in BOOLEAN : AuthHeaderLogin(ok)
  \/ \E u \in Issued(now) : AuthCallbackSuccess(0, u)
  \/ AuthCallbackFailure(0)

\* Concurrent silent renewals
NextRenew ==
  \/ Startup
  \/ Tick
  \/ \E s \in 1..MaxRenewals : signinSilentStart(s)
  \/ \E s \in 1..MaxRenewals, u \in Issued(now) : signinSilentUser(s, u)
  \/ \E s \in 1..MaxRenewals, ok \in BOOLEAN : signinSilentNone(s, ok)

\* The authorized transport
NextFetch ==
  \/ Startup
  \/ Tick
  \/ \E r \in 1..MaxRequests, attach \in BOOLEAN : authFetchStart(r, attach)
  \/ \E r \in 1..MaxRequests : authFetchNetworkError(r)
  \/ \E r \in 1..MaxRequests, status \in Statuses : authFetchResponse(r, status)
  \/ \E r \in 1..MaxRequests, ok \in BOOLEAN : authFetchRemoveUserDone(r, ok)
  \/ \E r \in 1..MaxRequests, ok, unloaded \in BOOLEAN : authFetchSignoutDone(r, ok, unloaded)

\* The guard's sign-in redirect and the callback route
NextRedirect ==
  \/ Startup
  \/ \E g \in 1..MaxGuards, l \in Locations \cup {NoLoc} : canActivateStart(g, l, {})
  \/ \E g \in 1..MaxGuards : canActivateLoginCheckFails(g)
  \/ \E g \in 1..MaxGuards : canActivateLoggedIn(g)
  \/ \E g \in 1..MaxGuards, ok \in BOOLEAN : canActivateRedirectDone(g, ok)
  \/ \E ok \in BOOLEAN : AuthHeaderLogin(ok)
  \/ \E g \in 0..MaxGuards, u \in Issued(now) : AuthCallbackSuccess(g, u)
  \/ AuthCallbackFailure(0)

\* The guard's role check against a changing session
NextRoles ==
  \/ Startup
  \/ Tick
  \/ AccessTokenExpired
  \/ \E g \in 1..MaxGuards, rr \in SUBSET RoleNames : canActivateStart(g, NoLoc, rr)
  \/ \E g \in 1..MaxGuards : canActivateLoginCheckFails(g)
  \/ \E g \in 1..MaxGuards : canActivateLoggedIn(g)
  \/ \E g \in 1..MaxGuards, ok \in BOOLEAN : canActivateRedirectDone(g, ok)

\* Silent renewal with application error subscribers
NextSilent ==
  \/ Startup
  \/ \E h \in AppHandlers : onError(h)
  \/ \E s \in 1..MaxRenewals : signinSilentStart(s)
  \/ \E s \in 1..MaxRenewals, ok \in BOOLEAN : signinSilentNone(s, ok)
  \/ \E s \in 1..MaxRenewals : signinSilentSessionInvalid(s)
  \/ \E ok \in BOOLEAN : signinSilentCallback(ok)
  \/ SilentRenewError
  \/ SilentRenewSessionInvalid

\* Sign-out by redirect, with application subscribers
NextSignout ==
  \/ Startup
  \/ \E h \in AppHandlers : onUserChange(h)
  \/ \E ok, unloaded \in BOOLEAN : signoutRedirect(ok, unloaded)
  \/ \E ok \in BOOLEAN : signoutRedirectCallback(ok)

\* Expiry of the access token, with application subscribers
NextExpiry ==
  \/ Startup
  \/ Tick
  \/ \E h \in AppHandlers : onUserChange(h)
  \/ AccessTokenExpired

\* The header-attachment decision under every configuration
NextHeader ==
  \E url \in Urls : authFetchDecide(url)

\* Application handlers whose bodies unsubscribe
NextReentrant ==
  \/ Startup
  \/ \E h \in AppHandlers : onUserChange(h)
  \/ \E h \in AppHandlers : Unsubscribe(h)
  \/ \E ok \in BOOLEAN : removeUser(ok)

\* The scope's registry entry and the services created for it
NextRegistry ==
  \/ Startup
  \/ Tick
  \/ initAuth
  \/ \E i \in 1..(MaxInstances - 1), ok \in BOOLEAN : ExtraInitDone(i, ok)
  \/ \E ok \in BOOLEAN : removeUser(ok)

\* A scope from before its initialisation
NextResolve ==
  \/ Startup
  \/ Tick
  \/ initAuth
  \/ getAuth
  \/ \E i \in 1..(MaxInstances - 1), ok \in BOOLEAN : ExtraInitDone(i, ok)

\* Guard calls made through requireAuth
NextRequire ==
  \/ Startup
  \/ Tick
  \/ \E g \in 1..MaxGuards, rr \in SUBSET RoleNames : requireAuthStart(g, NoLoc, rr)
  \/ \E g \in 1..MaxGuards : canActivateLoginCheckFails(g)
  \/ \E g \in 1..MaxGuards : canActivateLoggedIn(g)
  \/ \E g \in 1..MaxGuards, ok \in BOOLEAN : canActivateRedirectDone(g, ok)
  \/ \E g \in 1..MaxGuards : requireAuthDone(g)

\* Broker operations that can fail, with application error subscribers
NextFailures ==
  \/ Startup
  \/ \E h \in AppHandlers : onError(h)
  \/ \E ok \in BOOLEAN : clearStaleState(ok)
  \/ \E ok \in BOOLEAN : removeUser(ok)
  \/ \E ok \in BOOLEAN : signinSilentCallback(ok)
  \/ \E ok \in BOOLEAN : signoutRedirectCallback(ok)
  \/ \E ok \in BOOLEAN : AuthHeaderLogin(ok)

\* The derivations on the profile
NextProfile ==
  \/ deriveRoles
  \/ deriveDisplayName
  \/ getDisplayNameCall

\* The convenience verbs over authFetch
NextApi ==
  \/ \E r \in 1..MaxRequests, verb \in Verbs, attach \in BOOLEAN : verbStart(r, verb, attach)
  \/ \E r \in 1..MaxRequests : authFetchNetworkError(r)
  \/ \E r \in 1..MaxRequests, status \in Statuses : authFetchResponse(r, status)
  \/ \E r \in 1..MaxRequests, ok \in BOOLEAN : authFetchRemoveUserDone(r, ok)
  \/ \E r \in 1..MaxRequests, ok, unloaded \in BOOLEAN : authFetchSignoutDone(r, ok, unloaded)
  \/ \E r \in 1..MaxRequests, ct \in BOOLEAN, body \in Bodies : verbSettle(r, ct, body)

\* The requireAuth action on an element
NextMount ==
  \/ Startup
  \/ Tick
  \/ \E n \in 1..MaxMounts : requireAuthMount(n)
  \/ \E n \in 1..MaxMounts, i \in 1..2 : checkAuthLoginCheckFails(n, i)
  \/ \E n \in 1..MaxMounts, i \in 1..2 : checkAuthLoggedIn(n, i)
  \/ \E n \in 1..MaxMounts, i \in 1..2, ok \in BOOLEAN : checkAuthRedirectDone(n, i, ok)

\* The service's accessors next to the derived stores
NextAccessors ==
  \/ deriveRoles
  \/ deriveDisplayName
  \/ getDisplayNameCall
  \/ \E roleName \in QueryRoles : hasRoleCall(roleName)
  \/ isAdminCall
  \/ deriveIsAdmin

\* The signed-out page
NextLoggedOut ==
  \/ Startup
  \/ \E h \in AppHandlers : onUserChange(h)
  \/ \E seconds \in 0..MaxCountdown, autoRedirect \in BOOLEAN :
       LoggedOutMount(seconds, autoRedirect)
  \/ \E ok \in BOOLEAN : handleLogout(ok)
  \/ countdownTick
  \/ cancelRedirect

SpecSession == Init /\ [][NextSession]_vars
SpecSubscribe == Init /\ [][NextSubscribe]_vars
SpecCallback == Init /\ [][NextCallback]_vars
SpecRenew == Init /\ [][NextRenew]_vars
SpecFetch == Init /\ [][NextFetch]_vars
SpecRedirect == Init /\ [][NextRedirect]_vars
SpecRoles == Init /\ [][NextRoles]_vars
SpecSilent == Init /\ [][NextSilent]_vars
SpecSignout == Init /\ [][NextSignout]_vars
SpecExpiry == Init /\ [][NextExpiry]_vars
SpecHeader == InitConfigured /\ [][NextHeader]_vars
SpecReentrant == InitReentrant /\ [][NextReentrant]_vars
SpecRegistry == Init /\ [][NextRegistry]_vars
SpecRemove == Init /\ [][NextRemove]_vars
SpecResolve == InitUnset /\ [][NextResolve]_vars
SpecRequire == Init /\ [][NextRequire]_vars
SpecFailures == Init /\ [][NextFailures]_vars
SpecProfile == InitProfile /\ [][NextProfile]_vars
SpecApi == Init /\ [][NextApi]_vars
SpecMount == Init /\ [][NextMount]_vars
SpecLoggedOut == Init /\ [][NextLoggedOut]_vars
SpecAccessors == InitAccessors /\ [][NextAccessors]_vars

\* ---------------------------------------------------------------- claims
Authenticated(u) == u # NoUser /\ ~Expired(u, now)

\* The set of role names a role claim carries, whatever its shape
RoleSet(u) == IF u = NoUser THEN {} ELSE Range(u.role.val)

\* C1: when all requests are in flight together and each has received a 401,
\* removeUser and signoutRedirect have each been invoked once in total.
C1_SingleSignOut ==
  (\A r \in 1..MaxRequests :
      fetchStatus[r] = 401 /\ fetchPc[r] \in {"removeUser", "signoutRedirect"})
    => removeCalls = 1 /\ signoutCalls <= 1

\* C2: every authFetch call that received a 401 settles by resolving with
\* that response, also when removeUser or signoutRedirect failed.
C2_Resolves401 ==
  \A r \in 1..MaxRequests :
    fetchPc[r] = "done" /\ fetchStatus[r] = 401 => fetchResult[r] = "resolved"

\* C3: a step that registers handler h calls h exactly once, with the
\* broker's current session, whatever number of changes went before.
C3_ReplayOnce ==
  [][\A h \in AppHandlers :
       userCallbacks' = Append(userCallbacks, h)
         => /\ received'[h].count = received[h].count + 1
            /\ received'[h].last = currentUser
            /\ currentUser' = currentUser
            /\ changes' = changes]_vars

C3_Witness ==
  /\ changes >= 2
  /\ 1 \in Range(userCallbacks)
  /\ received[1].count = 1
  /\ received[1].last = currentUser
  /\ currentUser # NoUser

\* C4: when renewal a was initiated before renewal b and b has already
\* completed and published its session, the completion of a leaves the
\* broker's session the one b obtained.
C4_LastWriteWins ==
  [][\A a, b \in 1..MaxRenewals :
       /\ a < b
       /\ renewPc[b] = "done" /\ renewUser[b] # NoUser /\ currentUser = renewUser[b]
       /\ renewPc[a] = "pending" /\ renewPc'[a] = "done"
       => currentUser' = renewUser[b]]_vars

\* C5: whenever the session the projection holds has an expiry time that has
\* passed, the isAuthenticated store reads false.
C5_ExpiredNotAuthenticated ==
  (userStore # NoUser /\ userStore.expires_at < now) => ~isAuthenticated

\* C6: between steps (no notification in progress) the projection's user
\* store holds exactly what getCurrentUser() returns.
C6_StoreMirrorsBroker == userStore = currentUser

C6_Witness ==
  /\ changes >= 3
  /\ currentUser # NoUser
  /\ currentUser.access_token = 2
  /\ userStore = currentUser
  /\ errorStore = SomeError

C8_AnyOfRoles ==
  [][\A g \in 1..MaxGuards :
       /\ guardPc[g] = "isLoggedIn" /\ guardPc'[g] # "isLoggedIn"
       /\ guardResult'[g] # "rejected"
       /\ Authenticated(currentUser)
       => /\ guardPc'[g] = "done"
          /\ signinCalls'[g] = signinCalls[g]
          /\ guardResult'[g] =
               IF guardOpts[g].requiredRoles = {}
                  \/ guardOpts[g].requiredRoles \cap RoleSet(currentUser) # {}
               THEN "true" ELSE "false"]_vars

C8_Witness ==
  /\ guardPc[1] = "done" /\ guardResult[1] = "true"
  /\ guardOpts[1].requiredRoles = {"Admin", "Editor"}
  /\ RoleSet(currentUser) = {"Admin"}
  /\ signinCalls[1] = 0

\* C9: a step in which signinRedirectCallback succeeds leaves the returned
\* session as the broker's current session and has delivered it to the
\* stores and to every registered handler.
C9_CallbackPublishes ==
  [][(cbCount' = cbCount + 1 /\ cbResult'.status = "ok")
       => /\ currentUser' = cbResult'.user
          /\ userStore' = cbResult'.user
          /\ \A h \in AppHandlers :
               h \in Range(userCallbacks)
                 => received'[h].last = cbResult'.user
                    /\ received'[h].count > received[h].count]_vars

C9_Witness ==
  /\ cbResult.status = "ok"
  /\ 1 \in Range(userCallbacks)
  /\ received[1].count >= 2
  /\ received[1].last = cbResult.user
  /\ currentUser = cbResult.user

\* C10: a step in which signinRedirectCallback fails reaches the caller as an
\* error, leaves the broker's session as it was and publishes no session
\* change.
C10_CallbackFailureKeepsSession ==
  [][(cbCount' = cbCount + 1 /\ cbResult'.status # "ok")
       => /\ cbResult'.status = "error"
          /\ currentUser' = currentUser
          /\ storage' = storage
          /\ changes' = changes
          /\ userStore' = userStore
          /\ received' = received]_vars

C10_Witness ==
  /\ cbResult.status = "error"
  /\ currentUser # NoUser
  /\ userStore = currentUser
  /\ errorStore = SomeError

\* C11: a step in which a silent renewal fails (signinSilent rejecting,
\* signinSilentCallback rejecting, or the automatic renewal raising its error
\* event) calls every registered error subscriber and leaves the broker's
\* session and the projection's user as they were.
C11_RenewalFailureKeepsSession ==
  [][((\E s \in 1..MaxRenewals : signinSilentNone(s, FALSE))
        \/ signinSilentCallback(FALSE) \/ SilentRenewError)
       => /\ currentUser' = currentUser
          /\ userStore' = userStore
          /\ changes' = changes
          /\ errorStore' = SomeError
          /\ \A h \in AppHandlers :
               h \in Range(errorCallbacks) => errReceived'[h] > errReceived[h]]_vars

C11_Witness ==
  /\ initPc = "await"
  /\ renewPc[1] = "done"
  /\ errorStore = SomeError
  /\ 1 \in Range(errorCallbacks)
  /\ errReceived[1] >= 1
  /\ currentUser # NoUser
  /\ userStore = currentUser

\* C12: a step in which a silent renewal is refused because the provider
\* says the session is invalid leaves the broker without a session and the
\* projection's user null.
C12_InvalidSessionCleared ==
  [][((\E s \in 1..MaxRenewals : signinSilentSessionInvalid(s))
        \/ SilentRenewSessionInvalid)
       => currentUser' = NoUser /\ userStore' = NoUser]_vars

\* A step that leaves the session null and has told every registered
\* subscriber (the stores' handler included) null
ClearedAndPublished ==
  /\ currentUser' = NoUser
  /\ userStore' = NoUser
  /\ changes' > changes
  /\ \A h \in AppHandlers :
       h \in Range(userCallbacks)
         => received'[h].last = NoUser /\ received'[h].count > received[h].count

\* C13 as stated: a successful signoutRedirectCallback step leaves the session
\* null with null published to every subscriber, and a signoutRedirect step
\* leaves the broker's session as it was.
C13_SignOutClearsOnReturnOnly ==
  [][/\ signoutRedirectCallback(TRUE) => ClearedAndPublished
     /\ (\E ok, unloaded \in BOOLEAN : signoutRedirect(ok, unloaded))
          => currentUser' = currentUser]_vars

\* C13 amended: a successful signoutRedirectCallback step leaves the session
\* null with null published to every subscriber; a signoutRedirect step
\* either leaves the session as it was or (the client having unloaded the
\* user) leaves it null with storage cleared and null published.
C13_SignOutClears ==
  [][/\ signoutRedirectCallback(TRUE) => ClearedAndPublished
     /\ (\E ok, unloaded \in BOOLEAN : signoutRedirect(ok, unloaded))
          => \/ currentUser' = currentUser /\ userStore' = userStore /\ changes' = changes
             \/ ClearedAndPublished /\ storage' = NoUser]_vars

C13_Witness ==
  /\ currentUser = NoUser
  /\ storage # NoUser
  /\ userStore = NoUser
  /\ changes >= 2
  /\ 1 \in Range(userCallbacks)
  /\ received[1].count >= 2
  /\ received[1].last = NoUser

\* C14: a removeUser step starts no redirect; when it succeeds the call
\* resolves, storage and the session are null and null has been published to
\* every subscriber; when the UserManager fails the call rejects and the
\* session, the projection and the subscribers are as before.
C14_RemoveUserLocalClear ==
  [][/\ (\E ok \in BOOLEAN : removeUser(ok))
          => signoutCalls' = signoutCalls /\ signinCalls' = signinCalls
             /\ oidcState' = oidcState
     /\ removeUser(TRUE)
          => removeResult' = "resolved" /\ storage' = NoUser /\ ClearedAndPublished
     /\ removeUser(FALSE)
          => /\ removeResult' = "rejected"
             /\ currentUser' = currentUser
             /\ storage' = storage
             /\ userStore' = userStore
             /\ received' = received
             /\ changes' = changes]_vars

C14_Witness ==
  /\ removeResult = "resolved"
  /\ currentUser = NoUser
  /\ storage = NoUser
  /\ userStore = NoUser
  /\ changes >= 3
  /\ 1 \in Range(userCallbacks)
  /\ received[1].count >= 3
  /\ received[1].last = NoUser

\* C15: a step in which the access-token-expired event is handled leaves
\* the broker without a session, the projection's user null, and has called
\* every registered subscriber with null.
C15_ExpiryClearsSession ==
  [][AccessTokenExpired => ClearedAndPublished]_vars

C15_Witness ==
  /\ currentUser = NoUser
  /\ storage # NoUser
  /\ Expired(storage, now)
  /\ userStore = NoUser
  /\ changes >= 2
  /\ 1 \in Range(userCallbacks)
  /\ received[1].count >= 2
  /\ received[1].last = NoUser

\* C16: a step in which an authFetch call receives a response whose status
\* is not 401 leaves the session and storage as they were, calls neither
\* removeUser nor signoutRedirect, calls onForbidden once if the status is 403
\* and not otherwise, and settles the call by resolving with that response.
C16_Non401PassThrough ==
  [][\A r \in 1..MaxRequests :
       (fetchPc[r] = "fetch" /\ fetchStatus'[r] \in Statuses \ {401})
         => /\ currentUser' = currentUser
            /\ storage' = storage
            /\ userStore' = userStore
            /\ changes' = changes
            /\ removeCalls' = removeCalls
            /\ signoutCalls' = signoutCalls
            /\ onUnauthorizedCalls' = onUnauthorizedCalls
            /\ onForbiddenCalls' =
                 onForbiddenCalls + (IF fetchStatus'[r] = 403 THEN 1 ELSE 0)
            /\ fetchPc'[r] = "done"
            /\ fetchResult'[r] = "resolved"]_vars

C16_Witness ==
  /\ fetchPc[1] = "done"
  /\ fetchStatus[1] = 403
  /\ fetchResult[1] = "resolved"
  /\ fetchHeader[1] # 0
  /\ onForbiddenCalls = 1
  /\ removeCalls = 0
  /\ currentUser # NoUser

\* The URL is on the exclusion list or is a localization asset
Excluded(url, config) ==
  \/ \E e \in config.excludeUrls : Includes(url, e)
  \/ Includes(url, <<"i18n">>)
  \/ Includes(url, <<"/locales/">>)

\* The URL matches the configured base URL or an inclusion-list entry
Included(url, config) ==
  \/ config.apiBaseUrl # NoUrl /\ StartsWith(url, config.apiBaseUrl)
  \/ \E a \in config.additionalUrls : StartsWith(url, a)

C18_DeliveryInOrder ==
  [][changes' > changes
       => /\ delivered' = userCallbacks
          /\ \A h \in AppHandlers :
               /\ received'[h].count =
                    received[h].count
                      + (changes' - changes) * Registrations(userCallbacks, h)
               /\ h \in Range(userCallbacks) => received'[h].last = userStore']_vars

C18_Witness ==
  /\ delivered = <<StoresHandler, 1>>
  /\ changes >= 2
  /\ received[1].count >= 2
  /\ received[1].last = userStore
  /\ userStore # NoUser

\* C19: no handler is ever called while none of its registrations is left
\* (its unsubscribe closure having returned), and a step in which the
\* closure of h runs removes the registrations of h and nothing else.
C19_UnsubscribedNeverCalled ==
  /\ [](~lateCall)
  /\ [][\A h \in AppHandlers :
          Unsubscribe(h)
            => /\ h \notin Range(userCallbacks')
               /\ \A g \in (AppHandlers \cup {StoresHandler}) \ {h} :
                    Registrations(userCallbacks', g) = Registrations(userCallbacks, g)
               /\ userCallbacks' = Filtered(userCallbacks, h)
               /\ errorCallbacks' = errorCallbacks]_vars

\* C20: a call of initAuth in a scope that is already initialised fails and
\* leaves the scope as it was, so the scope never has a second AuthService
\* and never more than one service holding a session.
C20_InitializedOnce ==
  /\ [](Len(extraServices) = 0)
  /\ [](LiveSessions <= 1)
  /\ [][initAuth => /\ initAuthResult' = "threw"
                    /\ UNCHANGED <<context, extraServices>>]_vars

\* C21: getAuth throws when the scope has no context entry; otherwise it
\* returns the handle that initAuth built for the scope, every part of which
\* refers to the one AuthService that handle was built around.
C21_ResolveOrFail ==
  [][getAuth
       => IF initAuthResult = "none"
          THEN resolved'.status = "threw"
          ELSE /\ resolved'.status = "returned"
               /\ resolved'.handle = built
               /\ resolved'.handle.service \in 1..(Len(extraServices) + 1)
               /\ \A part \in {"stores", "fetch", "api", "guards", "requireAuth"} :
                    resolved'.handle[part] = resolved'.handle.service]_vars

C21_Witness ==
  /\ resolved.status = "returned"
  /\ resolved.handle = built
  /\ resolved.handle.service = 1
  /\ initPc = "done"

\* C22: a successful broker operation (load, sign-in callback, renewal,
\* sign-out callback) that completes while the projection reports an error
\* leaves the projection's error slot empty.
C22_RecoversFromError ==
  [][(/\ errorStore # NoError
      /\ \/ LoadUserDone(TRUE)
         \/ \E u \in Issued(now) : AuthCallbackSuccess(0, u)
         \/ \E u \in Issued(now) : AutomaticRenewLoaded(u)
         \/ signoutRedirectCallback(TRUE))
       => errorStore' = NoError]_vars

C24_LoadSwallowsFailure ==
  /\ [](/\ loadUserReturn(NoUser, now, TRUE) = NoUser
        /\ loadUserReturn(storage, now, FALSE) = NoUser
        /\ (storage # NoUser /\ Expired(storage, now))
             => loadUserReturn(storage, now, TRUE) = NoUser)
  /\ [][InitDone(FALSE) \/ LoadUserDone(FALSE)
          => /\ errorStore' = errorStore
             /\ errReceived' = errReceived
             /\ currentUser' = currentUser]_vars

\* C25: a canActivate call that found no session and called signinRedirect
\* resolves with false when signinRedirect has settled, whether or not the
\* redirect could be started.
C25_FalseWithoutNavigation ==
  [][\A g \in 1..MaxGuards, ok \in BOOLEAN :
       canActivateRedirectDone(g, ok) => guardResult'[g] = "false"]_vars

\* A guard call denied because the session lacks the required roles leaves
\* the session alone and starts no redirect.
RoleDenialIsQuiet ==
  \A g \in 1..MaxGuards :
    (canActivateLoggedIn(g) /\ guardResult'[g] = "false")
      => /\ currentUser' = currentUser
         /\ storage' = storage
         /\ signinCalls' = signinCalls
         /\ signoutCalls' = signoutCalls
         /\ oidcState' = oidcState

\* C26 as stated: requireAuth fails exactly when canActivate yielded false
\* and completes normally in every other case; a role denial is quiet.
C26_RequireFailsIffFalse ==
  [][/\ \A g \in 1..MaxGuards :
          requireAuthDone(g)
            => /\ requireResult'[g] \in {"threw", "rejected"} <=> guardResult[g] = "false"
               /\ requireResult'[g] = "resolved" <=> guardResult[g] # "false"
     /\ RoleDenialIsQuiet]_vars

\* C26 amended: requireAuth completes normally exactly when canActivate
\* yielded true, throws its own error when canActivate yielded false, and
\* fails with canActivate's error when canActivate itself failed; a role
\* denial is quiet.
C26_RequireMirrorsCanActivate ==
  [][/\ \A g \in 1..MaxGuards :
          requireAuthDone(g)
            => /\ requireResult'[g] = "resolved" <=> guardResult[g] = "true"
               /\ requireResult'[g] = "threw" <=> guardResult[g] = "false"
               /\ requireResult'[g] = "rejected" <=> guardResult[g] = "rejected"
               /\ currentUser' = currentUser
               /\ signinCalls' = signinCalls
               /\ signoutCalls' = signoutCalls
     /\ RoleDenialIsQuiet]_vars

C26_Witness ==
  /\ requireResult[1] = "threw"
  /\ guardResult[1] = "false"
  /\ guardOpts[1].requiredRoles # {}
  /\ signinCalls[1] = 0
  /\ currentUser # NoUser

\* The step has called every registered error subscriber once per
\* registration, the stores' handler included.
ErrorDelivered ==
  /\ errReceived' = [h \in AppHandlers |->
                       errReceived[h] + Registrations(errorCallbacks, h)]
  /\ StoresHandler \in Range(errorCallbacks) => errorStore' = SomeError

\* C27: a broker operation whose UserManager call fails either rejects to
\* its caller or has called the error subscribers: clearStaleState,
\* removeUser, signinSilentCallback, signoutRedirectCallback, signinRedirect.
C27_NoErrorDropped ==
  [][/\ clearStaleState(FALSE) => (staleResult' = "rejected" \/ ErrorDelivered)
     /\ removeUser(FALSE) => (removeResult' = "rejected" \/ ErrorDelivered)
     /\ signinSilentCallback(FALSE) => ErrorDelivered
     /\ signoutRedirectCallback(FALSE) => ErrorDelivered
     /\ AuthHeaderLogin(FALSE) => ErrorDelivered]_vars

\* C29: the roles store holds a sequence: the claim's array for an array
\* claim, the one-element sequence of the string for a string claim, and the
\* empty sequence without a profile or without a role claim (an empty string
\* counts as no claim); the claims "Admin" and ["Admin"] give the same roles.
C29_RolesNormalized ==
  /\ "roles" \in derivedBy
       => /\ derivedRoles \in Seq({"Admin", "Editor"})
          /\ profile = NoProfile => derivedRoles = <<>>
          /\ profile # NoProfile
               => /\ profile.role.kind = "absent" => derivedRoles = <<>>
                  /\ profile.role.kind = "array" => derivedRoles = profile.role.val
                  /\ profile.role.kind = "scalar"
                       => derivedRoles =
                            IF profile.role.val[1] = "" THEN <<>>
                            ELSE <<profile.role.val[1]>>
  /\ roleArray([kind |-> "scalar", val |-> <<"Admin">>])
       = roleArray([kind |-> "array", val |-> <<"Admin">>])

C29_Witness ==
  /\ "roles" \in derivedBy
  /\ profile # NoProfile
  /\ profile.role = [kind |-> "scalar", val |-> <<"Admin">>]
  /\ derivedRoles = <<"Admin">>

\* The name parts of profile p that are present: defined and not empty
PresentIn(p, field) == p[field].defined /\ p[field].chars # <<>>

\* What C30 says the display name of profile p is
ExpectedDisplayName(p) ==
  IF p = NoProfile THEN <<>>
  ELSE IF PresentIn(p, "given_name") /\ PresentIn(p, "family_name")
       THEN p.given_name.chars \o <<" ">> \o p.family_name.chars
  ELSE IF PresentIn(p, "email") THEN p.email.chars
  ELSE IF PresentIn(p, "name") THEN p.name.chars
  ELSE <<>>

\* C30: the displayName store and getDisplayName() give the given and family
\* name joined by a space when both are present, else the email when
\* present, else the name when present, else the empty string; without a
\* profile the empty string.
C30_DisplayNamePreference ==
  /\ "displayName" \in derivedBy => derivedName = ExpectedDisplayName(profile)
  /\ "getDisplayName" \in derivedBy => serviceName = ExpectedDisplayName(profile)

C30_Witness ==
  /\ {"displayName", "getDisplayName"} \subseteq derivedBy
  /\ profile # NoProfile
  /\ profile.given_name = Str(<<"Ada">>)
  /\ profile.family_name = Str(<<>>)
  /\ profile.email = Str(<<"ada@example.org">>)
  /\ profile.name = Str(<<"akay">>)
  /\ derivedName = <<"ada@example.org">>
  /\ serviceName = <<"ada@example.org">>

\* C31: whenever a convenience verb settles, (a) if the response was not 2xx
\* the verb has raised its error carrying that status (for a 401, after
\* removeUser and signoutRedirect have run), (b) if the response was 2xx with
\* a JSON body and a JSON content type the verb has returned the parsed body,
\* and (c) delete on a 2xx response with an empty body has ended without an
\* error.
C31_VerbsReportStatus ==
  [][\A r \in 1..MaxRequests, ct \in BOOLEAN, body \in Bodies :
       verbSettle(r, ct, body) =>
         /\ (fetchStatus[r] # 0 /\ ~ResponseOk(fetchStatus[r]))
              => /\ apiCall'[r].result = "httpError"
                 /\ apiCall'[r].status = fetchStatus[r]
         /\ (ResponseOk(fetchStatus[r]) /\ ct /\ body = "json")
              => apiCall'[r].result = "parsed"
         /\ (ResponseOk(fetchStatus[r]) /\ body = "empty" /\ apiCall[r].verb = "delete")
              => apiCall'[r].result \in {"parsed", "undefined"}]_vars

\* C32: whenever authFetch builds a request, the request carries no
\* Authorization header if the broker holds no session or holds one whose
\* expiry time has passed, and carries the held session's token if the
\* session is live and the URL qualifies.
C32_NoHeaderFromAbsentSession ==
  [][\A r \in 1..MaxRequests, attach \in BOOLEAN :
       authFetchStart(r, attach) =>
         IF currentUser = NoUser \/ Expired(currentUser, now)
         THEN fetchHeader'[r] = 0
         ELSE attach => fetchHeader'[r] = currentUser.access_token]_vars

\* C33: while the initial loadUser() of the stores is still pending (and no
\* callback route has run), the projection reports Loading: loadingStore is
\* true, so it does not show a settled Anonymous state (loadingStore false
\* with a null user).
C33_LoadingUntilLoaded ==
  (initPc # "none" /\ loadPending > 0 /\ cbResult.status = "none")
    => /\ loadingStore = TRUE
       /\ ~(loadingStore = FALSE /\ userStore = NoUser)

\* C34: a successful removeUser step (one of the session-changing operations)
\* notifies the subscribers once: notifyUserChange runs once, and every
\* handler registered once is called exactly once, with the resulting
\* session value (null).
C34_DeliveredOnce ==
  [][removeUser(TRUE) =>
       /\ changes' = changes + 1
       /\ \A h \in AppHandlers :
            Cardinality({i \in DOMAIN userCallbacks : userCallbacks[i] = h}) = 1
              => /\ received'[h].count = received[h].count + 1
                 /\ received'[h].last = NoUser]_vars

\* C35: in the step in which canActivate learns the outcome of isLoggedIn(),
\* it resolves true only if the projection's isAuthenticated reads true at
\* that moment, and it calls signinRedirect only if isAuthenticated reads
\* false at that moment.
C35_GuardAgreesWithProjection ==
  [][\A g \in 1..MaxGuards :
       canActivateLoggedIn(g) =>
         /\ guardResult'[g] = "true" => isAuthenticated
         /\ signinCalls'[g] > signinCalls[g] => ~isAuthenticated]_vars

\* C36: when a loadUser() call settles, the broker's state matches what the
\* call resolves with: if it resolves to null, getCurrentUser() is null and
\* the last value the projection was told is null; if it resolves to a
\* session, getCurrentUser() is that session.
C36_LoadUserMatchesState ==
  [][\A ok \in BOOLEAN :
       LoadUserDone(ok) =>
         IF loadUserReturn(storage, now, ok) = NoUser
         THEN currentUser' = NoUser /\ userStore' = NoUser
         ELSE currentUser' = loadUserReturn(storage, now, ok)]_vars

\* C37: an element on which requireAuth was mounted while no session was
\* stored has had at most one signinRedirect call made by its checks.
C37_OneRedirectPerMount ==
  \A n \in 1..MaxMounts :
    (mounts[n] # NotMounted /\ storage = NoUser) => mounts[n].signins <= 1

\* C38: on one and the same profile, whatever the shape of its role claim,
\* hasRole(r) answered yes exactly for the names the roles store contains,
\* isAdmin() answered what the isAdmin store holds, and getDisplayName()
\* returned what the displayName store holds.
C38_AccessorsAgreeWithStores ==
  /\ "roles" \in derivedBy
       => \A r \in accessors.asked : r \in accessors.hasRole <=> r \in Range(derivedRoles)
  /\ (accessors.isAdmin # "none" /\ accessors.isAdminStore # "none")
       => accessors.isAdmin = accessors.isAdminStore
  /\ {"displayName", "getDisplayName"} \subseteq derivedBy => serviceName = derivedName

C38_Witness ==
  /\ profile # NoProfile
  /\ profile.role = [kind |-> "scalar", val |-> <<"Administrator">>]
  /\ profile.admin = "'true'"
  /\ "roles" \in derivedBy
  /\ accessors.asked = QueryRoles
  /\ accessors.hasRole = {"Administrator"}
  /\ accessors.isAdmin = "true"
  /\ accessors.isAdminStore = "true"
  /\ {"displayName", "getDisplayName"} \subseteq derivedBy

\* C39: once cancelRedirect() has been called, no later step makes an
\* automatic redirect, whether the call came before or after the sign-out
\* callback settled; and the countdown never makes more than one redirect and
\* is not ticking after it has made one.
C39_CancelStopsRedirect ==
  /\ [][loggedOut.cancelCalled => loggedOut'.redirects = loggedOut.redirects]_vars
  /\ [](loggedOut.redirects <= 1 /\ (loggedOut.redirects = 1 => ~loggedOut.ticking))

====
